---- MODULE Spec2Model ----
(***************************************************************************)
(* A model of mcj, the Minecraft world <-> JSON serializer:                *)
(*   - the tag <-> document codec        (src/src/nbt_json.rs)             *)
(*   - the region container codec        (src/src/mca.rs)                  *)
(*   - the denoise / restore transform   (src/src/denoise.rs)              *)
(*   - the export / restore pipeline     (src/src/export.rs, restore.rs)   *)
(* Strings whose characters the code inspects are sequences of one-        *)
(* character strings; object keys, which the code only copies and          *)
(* compares, are TLA+ strings.                                             *)
(***************************************************************************)
EXTENDS Integers, Sequences, FiniteSets, TLC

VARIABLES
  tag, doc, back, cpc,         \* codec: input tag, its document, the decoded result, position
  recs, file, rd, mpc,         \* container: records to write, the file, read_mca's result, position
  ser, sidx, current_slice, current_size, slice_id, out, spc,
                               \* slicing: record sizes, loop index, write_region_sliced's
                               \* locals, the slice files written, position
  dval, dcfg, daggr, da, db, dpc,
                               \* denoise: input value, configuration, aggressive flag, the value
                               \* restored then denoised, the value only denoised, position
  cdoc, fdoc, fpc,             \* pruning: a record document, the document pruned, position
  fname, fres, npc,            \* file names: a name, parse_mca_filename's result, position
  src, opts, slices, dst, ppc, \* pipeline: source container, options, exported slice files,
                               \* restored container, position
  entries, jobs, state, wrote, ret, wpc,
                               \* dispatch: directory entries, the items of the par_iter, the
                               \* state of each, the writers of each output path, what the
                               \* world call returned, position
  level_json, level_dat, lpc   \* level restore: the text of level.json, the file level.dat,
                               \* position

codecVars   == <<tag, doc, back, cpc>>
mcaVars     == <<recs, file, rd, mpc>>
sliceVars   == <<ser, sidx, current_slice, current_size, slice_id, out, spc>>
denoiseVars == <<dval, dcfg, daggr, da, db, dpc>>
pruneVars   == <<cdoc, fdoc, fpc>>
nameVars    == <<fname, fres, npc>>
pipeVars    == <<src, opts, slices, dst, ppc>>
worldVars   == <<entries, jobs, state, wrote, ret, wpc>>
levelVars   == <<level_json, level_dat, lpc>>
vars == <<codecVars, mcaVars, sliceVars, denoiseVars, pruneVars, nameVars, pipeVars, worldVars, levelVars>>
\* what an action of one component leaves alone
OthersCodec   == <<mcaVars, sliceVars, denoiseVars, pruneVars, nameVars, pipeVars, worldVars, levelVars>>
OthersMca     == <<codecVars, sliceVars, denoiseVars, pruneVars, nameVars, pipeVars, worldVars, levelVars>>
OthersSlice   == <<codecVars, mcaVars, denoiseVars, pruneVars, nameVars, pipeVars, worldVars, levelVars>>
OthersDenoise == <<codecVars, mcaVars, sliceVars, pruneVars, nameVars, pipeVars, worldVars, levelVars>>
OthersPrune   == <<codecVars, mcaVars, sliceVars, denoiseVars, nameVars, pipeVars, worldVars, levelVars>>
OthersName    == <<codecVars, mcaVars, sliceVars, denoiseVars, pruneVars, pipeVars, worldVars, levelVars>>
OthersPipe    == <<codecVars, mcaVars, sliceVars, denoiseVars, pruneVars, nameVars, worldVars, levelVars>>
OthersWorld   == <<codecVars, mcaVars, sliceVars, denoiseVars, pruneVars, nameVars, pipeVars, levelVars>>
OthersLevel   == <<codecVars, mcaVars, sliceVars, denoiseVars, pruneVars, nameVars, pipeVars, worldVars>>

(***************************************************************************)
(* Bounds of the model.                                                    *)
(***************************************************************************)
MaxStrLen == 3       \* longest literal string drawn as codec input
MaxArrLen == 2       \* longest numeric array drawn as codec input
MaxListLen == 2      \* longest list drawn as codec input
MaxRecords == 2      \* most records written to one container
MaxSliceRecs == 3    \* most serialized records handed to write_region_sliced
MaxSections == 2     \* most elements of a "sections" array

(***************************************************************************)
(* Values.  Tag values (fastnbt::Value) and document nodes                 *)
(* (serde_json::Value) are records over one field set, so that any two     *)
(* compare:  t kind, n integer or decimal mantissa, e decimal exponent,    *)
(* f float class, s characters, a array elements, l children of a list or  *)
(* array, m members of a compound or object.                               *)
(***************************************************************************)
\* F applied to the value of v, which is evaluated once
With(v, F(_)) == CHOOSE r \in {F(x) : x \in {v}} : TRUE

EmptyMap == [k \in {} |-> 0]
Node(t, n, e, f, s, a, l, m) ==
  [t |-> t, n |-> n, e |-> e, f |-> f, s |-> s, a |-> a, l |-> l, m |-> m]

TByte(v)      == Node("Byte", v, 0, "", <<>>, <<>>, <<>>, EmptyMap)
TShort(v)     == Node("Short", v, 0, "", <<>>, <<>>, <<>>, EmptyMap)
TInt(v)       == Node("Int", v, 0, "", <<>>, <<>>, <<>>, EmptyMap)
TLong(v)      == Node("Long", v, 0, "", <<>>, <<>>, <<>>, EmptyMap)
\* a float is "fin" (n * 10^e, n not a multiple of 10 unless 0), "negzero", "inf", "neginf" or "nan"
TFloat(c, n, e)  == Node("Float", n, e, c, <<>>, <<>>, <<>>, EmptyMap)
TDouble(c, n, e) == Node("Double", n, e, c, <<>>, <<>>, <<>>, EmptyMap)
\* Value::Long of an integer beyond the integers of the model, held by its decimal text
TLongText(s)  == Node("Long", 0, 0, "text", s, <<>>, <<>>, EmptyMap)
\* Value::Double(n as f64) of such an integer: the float nearest to it
TDoubleNear(s) == Node("Double", 0, 0, "near", s, <<>>, <<>>, EmptyMap)
TString(s)    == Node("String", 0, 0, "", s, <<>>, <<>>, EmptyMap)
TByteArray(a) == Node("ByteArray", 0, 0, "", <<>>, a, <<>>, EmptyMap)
TIntArray(a)  == Node("IntArray", 0, 0, "", <<>>, a, <<>>, EmptyMap)
TLongArray(a) == Node("LongArray", 0, 0, "", <<>>, a, <<>>, EmptyMap)
TList(l)      == Node("List", 0, 0, "", <<>>, <<>>, l, EmptyMap)
TCompound(m)  == Node("Compound", 0, 0, "", <<>>, <<>>, <<>>, m)

JString(s)    == Node("str", 0, 0, "", s, <<>>, <<>>, EmptyMap)
\* serde_json::Number: an integer (PosInt/NegInt) or a Float
JInt(v)       == Node("num", v, 0, "int", <<>>, <<>>, <<>>, EmptyMap)
JFloat(c, n, e) == Node("num", n, e, c, <<>>, <<>>, <<>>, EmptyMap)
\* an integer beyond the integers of the model, held by its decimal text: class "i64"
\* when it fits i64 (Number::as_i64 is Some), "u64" when it only fits u64
JBigInt(c, s) == Node("num", 0, 0, c, s, <<>>, <<>>, EmptyMap)
JBool(b)      == Node("bool", IF b THEN 1 ELSE 0, 0, "", <<>>, <<>>, <<>>, EmptyMap)
JNull         == Node("null", 0, 0, "", <<>>, <<>>, <<>>, EmptyMap)
JArray(l)     == Node("arr", 0, 0, "", <<>>, <<>>, l, EmptyMap)
JObject(m)    == Node("obj", 0, 0, "", <<>>, <<>>, <<>>, m)

\* anyhow::Result<Value>: Ok(v), Err(..), or a panic that unwinds out of the call
Ok(v)  == [ok |-> TRUE, panic |-> FALSE, v |-> v]
Err    == [ok |-> FALSE, panic |-> FALSE, v |-> JNull]
Panic  == [ok |-> FALSE, panic |-> TRUE, v |-> JNull]

(***************************************************************************)
(* Characters and decimal text.                                            *)
(***************************************************************************)
DigitSeq == <<"0", "1", "2", "3", "4", "5", "6", "7", "8", "9">>
Digits   == {DigitSeq[i] : i \in 1..10}
DigitVal(c) == (CHOOSE i \in 1..10 : DigitSeq[i] = c) - 1
AllDigits(s) == \A i \in 1..Len(s) : s[i] \in Digits
DropFirst(s, k) == SubSeq(s, k + 1, Len(s))
DropLast(s, k)  == SubSeq(s, 1, Len(s) - k)
Last(s) == s[Len(s)]

RECURSIVE NatText(_)
\* the decimal digits of a natural number (what {} prints for an unsigned magnitude)
NatText(n) == IF n < 10 THEN <<DigitSeq[n + 1]>>
              ELSE NatText(n \div 10) \o <<DigitSeq[(n % 10) + 1]>>
RECURSIVE NegText(_)
\* the decimal digits of the magnitude of a negative number (-v itself may not fit)
NegText(v) == LET d == (10 - (v % 10)) % 10
              IN IF v > -10 THEN <<DigitSeq[d + 1]>>
                 ELSE NegText((v + d) \div 10) \o <<DigitSeq[d + 1]>>
\* format!("{}", v) of a signed integer
IntText(v) == IF v < 0 THEN <<"-">> \o NegText(v) ELSE NatText(v)

RECURSIVE DigitsVal(_)
DigitsVal(s) == IF s = <<>> THEN 0 ELSE DigitsVal(DropLast(s, 1)) * 10 + DigitVal(Last(s))
RECURSIVE StripZeros(_)
StripZeros(s) == IF Len(s) > 1 /\ s[1] = "0" THEN StripZeros(DropFirst(s, 1)) ELSE s

\* str::parse::<iN>() for a width of at most 32 bits: an optional sign, then one or
\* more ASCII digits, the value in [lo, hi].  Ten significant digits are compared
\* against the limit through their first nine, which fit; more do not fit any width.
ParseInt(s, lo, hi) ==
  LET neg  == s # <<>> /\ s[1] = "-"
      body == IF s # <<>> /\ s[1] \in {"-", "+"} THEN DropFirst(s, 1) ELSE s
      sig  == StripZeros(body)
      fail == [ok |-> FALSE, v |-> 0]
  IN IF body = <<>> \/ ~AllDigits(body) \/ Len(sig) > 10 THEN fail
     ELSE IF Len(sig) = 10
     THEN LET q   == DigitsVal(DropLast(sig, 1))
              d   == DigitVal(Last(sig))
              hiQ == hi \div 10
              hiD == hi % 10
              loQ == -((lo + 9) \div 10)
              loD == -(lo + loQ * 10)
          IN IF neg
             THEN IF q < loQ \/ (q = loQ /\ d <= loD)
                  THEN [ok |-> TRUE, v |-> -(q * 10) - d] ELSE fail
             ELSE IF q < hiQ \/ (q = hiQ /\ d <= hiD)
                  THEN [ok |-> TRUE, v |-> q * 10 + d] ELSE fail
     ELSE LET v == IF neg THEN -DigitsVal(sig) ELSE DigitsVal(sig)
          IN IF v < lo \/ v > hi THEN fail ELSE [ok |-> TRUE, v |-> v]

I8Min  == -128
I8Max  == 127
I16Min == -32768
I16Max == 32767
I32Min == -2147483647 - 1
I32Max == 2147483647

(***************************************************************************)
(* Floating point text.  A finite float is the decimal n * 10^e; Rust's    *)
(* Display prints the shortest decimal that parses back to the same float, *)
(* without an exponent, and from_str reads any decimal back.               *)
(***************************************************************************)
IndexOf(s, cs) == IF \E i \in 1..Len(s) : s[i] \in cs
                  THEN CHOOSE i \in 1..Len(s) : s[i] \in cs /\ \A j \in 1..(i - 1) : s[j] \notin cs
                  ELSE 0
CaseEq(s, lower, upper) ==
  Len(s) = Len(lower) /\ \A i \in 1..Len(s) : s[i] \in {lower[i], upper[i]}
IsInfText(s) == \/ CaseEq(s, <<"i", "n", "f">>, <<"I", "N", "F">>)
                \/ CaseEq(s, <<"i", "n", "f", "i", "n", "i", "t", "y">>,
                             <<"I", "N", "F", "I", "N", "I", "T", "Y">>)
IsNanText(s) == CaseEq(s, <<"n", "a", "n">>, <<"N", "A", "N">>)

\* the parts of [+-] digits* [. digits*] [(e|E) [+-] digits+]
FloatParts(s) ==
  LET neg   == s # <<>> /\ s[1] = "-"
      body  == IF s # <<>> /\ s[1] \in {"-", "+"} THEN DropFirst(s, 1) ELSE s
      ei    == IndexOf(body, {"e", "E"})
      mant  == IF ei = 0 THEN body ELSE SubSeq(body, 1, ei - 1)
      expt  == IF ei = 0 THEN <<>> ELSE DropFirst(body, ei)
      di    == IndexOf(mant, {"."})
      intp  == IF di = 0 THEN mant ELSE SubSeq(mant, 1, di - 1)
      fracp == IF di = 0 THEN <<>> ELSE DropFirst(mant, di)
      eneg  == expt # <<>> /\ expt[1] = "-"
      edig  == IF expt # <<>> /\ expt[1] \in {"-", "+"} THEN DropFirst(expt, 1) ELSE expt
  IN [neg |-> neg, body |-> body, hasExp |-> ei # 0, intp |-> intp, fracp |-> fracp,
      eneg |-> eneg, edig |-> edig]

\* str::parse::<f32>() / parse::<f64>() succeeds
IsFloatText(s) ==
  LET p == FloatParts(s)
  IN /\ p.body # <<>>
     /\ \/ /\ AllDigits(p.intp) /\ AllDigits(p.fracp)
           /\ Len(p.intp) + Len(p.fracp) >= 1
           /\ p.hasExp => (p.edig # <<>> /\ AllDigits(p.edig))
        \/ IsInfText(p.body)
        \/ IsNanText(p.body)

RECURSIVE NormFloat(_, _)
NormFloat(n, e) == IF n = 0 THEN <<0, 0>>
                   ELSE IF n % 10 = 0 THEN NormFloat(n \div 10, e + 1) ELSE <<n, e>>

\* the float a valid text denotes, as <<class, n, e>>
FloatOf(s) ==
  LET p  == FloatParts(s)
      ev == IF p.eneg THEN -DigitsVal(StripZeros(p.edig)) ELSE DigitsVal(StripZeros(p.edig))
      ne == NormFloat(DigitsVal(StripZeros(p.intp \o p.fracp)), ev - Len(p.fracp))
  IN IF IsInfText(p.body) THEN <<IF p.neg THEN "neginf" ELSE "inf", 0, 0>>
     ELSE IF IsNanText(p.body) THEN <<"nan", 0, 0>>
     ELSE IF ne[1] = 0 THEN <<IF p.neg THEN "negzero" ELSE "fin", 0, 0>>
     ELSE <<"fin", IF p.neg THEN -ne[1] ELSE ne[1], ne[2]>>

Zeros(k) == [i \in 1..k |-> "0"]
\* format!("{}", v) of an f32 or f64
FloatText(c, n, e) ==
  LET d == NatText(IF n < 0 THEN -n ELSE n)
      k == -e
      mag == IF e >= 0 THEN d \o Zeros(e)
             ELSE IF Len(d) > k
                  THEN SubSeq(d, 1, Len(d) - k) \o <<".">> \o SubSeq(d, Len(d) - k + 1, Len(d))
                  ELSE <<"0", ".">> \o Zeros(k - Len(d)) \o d
  IN CASE c = "inf"     -> <<"i", "n", "f">>
       [] c = "neginf"  -> <<"-", "i", "n", "f">>
       [] c = "nan"     -> <<"N", "a", "N">>
       [] c = "negzero" -> <<"-", "0">>
       [] OTHER         -> IF n < 0 THEN <<"-">> \o mag ELSE mag

(***************************************************************************)
(* base64 (the STANDARD engine: padded, canonical).                        *)
(***************************************************************************)
B64 == <<"A", "B", "C", "D", "E", "F", "G", "H", "I", "J", "K", "L", "M", "N", "O", "P",
         "Q", "R", "S", "T", "U", "V", "W", "X", "Y", "Z", "a", "b", "c", "d", "e", "f",
         "g", "h", "i", "j", "k", "l", "m", "n", "o", "p", "q", "r", "s", "t", "u", "v",
         "w", "x", "y", "z", "0", "1", "2", "3", "4", "5", "6", "7", "8", "9", "+", "/">>
B64Chars == {B64[i] : i \in 1..64}
B64Val(c) == (CHOOSE i \in 1..64 : B64[i] = c) - 1

RECURSIVE Base64Encode(_)
Base64Encode(b) ==
  IF Len(b) = 0 THEN <<>>
  ELSE IF Len(b) = 1
    THEN <<B64[(b[1] \div 4) + 1], B64[((b[1] % 4) * 16) + 1], "=", "=">>
  ELSE IF Len(b) = 2
    THEN <<B64[(b[1] \div 4) + 1], B64[((b[1] % 4) * 16 + b[2] \div 16) + 1],
           B64[((b[2] % 16) * 4) + 1], "=">>
  ELSE <<B64[(b[1] \div 4) + 1], B64[((b[1] % 4) * 16 + b[2] \div 16) + 1],
         B64[((b[2] % 16) * 4 + b[3] \div 64) + 1], B64[(b[3] % 64) + 1]>>
       \o Base64Encode(DropFirst(b, 3))

RECURSIVE SextetsToBytes(_)
SextetsToBytes(x) ==
  IF Len(x) < 2 THEN <<>>
  ELSE IF Len(x) = 2 THEN <<x[1] * 4 + x[2] \div 16>>
  ELSE IF Len(x) = 3 THEN <<x[1] * 4 + x[2] \div 16, (x[2] % 16) * 16 + x[3] \div 4>>
  ELSE <<x[1] * 4 + x[2] \div 16, (x[2] % 16) * 16 + x[3] \div 4, (x[3] % 4) * 64 + x[4]>>
       \o SextetsToBytes(DropFirst(x, 4))

\* BASE64.decode: the bytes whose canonical encoding the text is, or an error
Base64Decode(s) ==
  LET pad  == IF Len(s) >= 2 /\ s[Len(s)] = "=" /\ s[Len(s) - 1] = "=" THEN 2
              ELSE IF Len(s) >= 1 /\ s[Len(s)] = "=" THEN 1 ELSE 0
      body == DropLast(s, pad)
      ok1  == \A i \in 1..Len(body) : body[i] \in B64Chars
      by   == SextetsToBytes([i \in 1..Len(body) |-> B64Val(body[i])])
  IN IF ok1 /\ Base64Encode(by) = s THEN [ok |-> TRUE, bytes |-> by]
     ELSE [ok |-> FALSE, bytes |-> <<>>]

\* v.to_be_bytes() of an i32 (w = 4) or i64 (w = 8), two's complement
RECURSIVE NatBytes(_, _)
NatBytes(u, w) == IF w = 0 THEN <<>> ELSE NatBytes(u \div 256, w - 1) \o <<u % 256>>
ToBeBytes(v, w) ==
  IF v >= 0 THEN NatBytes(v, w)
  ELSE LET nb == NatBytes(-(v + 1), w) IN [i \in 1..w |-> 255 - nb[i]]
RECURSIVE BytesNat(_)
BytesNat(b) == IF b = <<>> THEN 0 ELSE BytesNat(DropLast(b, 1)) * 256 + Last(b)
\* iN::from_be_bytes of w bytes
FromBeBytes(b) ==
  IF b[1] < 128 THEN BytesNat(b)
  ELSE -BytesNat([i \in 1..Len(b) |-> 255 - b[i]]) - 1
RECURSIVE FlattenUpTo(_, _)
FlattenUpTo(ss, n) == IF n = 0 THEN <<>> ELSE FlattenUpTo(ss, n - 1) \o ss[n]
\* the concatenation of the sequences of ss
Flatten(ss) == FlattenUpTo(ss, Len(ss))

(***************************************************************************)
(* The tag <-> document codec.                                             *)
(***************************************************************************)
Marker == <<"\\", "0">>          \* the two characters appended by format!("{}\\0", s)
EndText == <<"E", "n", "d">>
\* the 64-bit range, as far as the integers of the model reach: no 64-bit value is
\* drawn beyond it
I64Hi == I32Max
I64Lo == I32Min

EndsWith(s, suf) == Len(s) >= Len(suf) /\ SubSeq(s, Len(s) - Len(suf) + 1, Len(s)) = suf

is_type_like_string(s) ==
  IF Len(s) < 2 THEN FALSE
  ELSE IF Last(s) \in {"b", "s", "L", "f"} /\ IsFloatText(DropLast(s, 1)) THEN TRUE
  ELSE IF Len(s) > 2 /\ s[2] = ";" /\ s[1] \in {"B", "I", "L"} THEN TRUE
  ELSE FALSE

RECURSIVE nbt_to_json(_)
nbt_to_json(v) ==
  CASE v.t = "Byte"   -> JString(IntText(v.n) \o <<"b">>)
    [] v.t = "Short"  -> JString(IntText(v.n) \o <<"s">>)
    [] v.t = "Int"    -> JInt(v.n)
    [] v.t = "Long"   -> JString(IntText(v.n) \o <<"L">>)
    [] v.t = "Float"  -> JString(FloatText(v.f, v.n, v.e) \o <<"f">>)
    [] v.t = "Double" ->
         \* Number::from_f64 is None for an infinite or NaN value
         IF v.f \in {"fin", "negzero"} THEN JFloat(v.f, v.n, v.e)
         ELSE JString(FloatText(v.f, v.n, v.e) \o <<"d">>)
    [] v.t = "String" ->
         IF is_type_like_string(v.s) THEN JString(v.s \o Marker) ELSE JString(v.s)
    [] v.t = "ByteArray" ->
         JString(<<"B", ";">> \o Base64Encode([i \in 1..Len(v.a) |-> v.a[i] % 256]))
    [] v.t = "IntArray" ->
         JString(<<"I", ";">> \o Base64Encode(Flatten([i \in 1..Len(v.a) |-> ToBeBytes(v.a[i], 4)])))
    [] v.t = "LongArray" ->
         JString(<<"L", ";">> \o Base64Encode(Flatten([i \in 1..Len(v.a) |-> ToBeBytes(v.a[i], 8)])))
    [] v.t = "List" ->
         IF v.l = <<>> THEN JObject("[]" :> JString(EndText))
         ELSE JArray([i \in 1..Len(v.l) |-> nbt_to_json(v.l[i])])
    [] v.t = "Compound" -> JObject([k \in DOMAIN v.m |-> nbt_to_json(v.m[k])])

\* bytes.chunks(w).map(|c| iN::from_be_bytes([c[0], .., c[w-1]])): indexing a short
\* last chunk is out of bounds
ChunksOk(bytes, w) == Len(bytes) % w = 0
ChunkValues(bytes, w) ==
  [i \in 1..(Len(bytes) \div w) |-> FromBeBytes(SubSeq(bytes, (i - 1) * w + 1, i * w))]

\* the suffix arms of parse_string_value, tried when no array prefix matched
parse_suffixed(s) ==
  IF s = <<>> THEN Ok(TString(s))
  ELSE With(DropLast(s, 1), LAMBDA pre :
         IF Last(s) = "b"
           THEN With(ParseInt(pre, I8Min, I8Max), LAMBDA pb :
                  IF pb.ok THEN Ok(TByte(pb.v)) ELSE Ok(TString(s)))
         ELSE IF Last(s) = "s"
           THEN With(ParseInt(pre, I16Min, I16Max), LAMBDA ps :
                  IF ps.ok THEN Ok(TShort(ps.v)) ELSE Ok(TString(s)))
         ELSE IF Last(s) = "L"
           THEN With(ParseInt(pre, I64Lo, I64Hi), LAMBDA pl :
                  IF pl.ok THEN Ok(TLong(pl.v)) ELSE Ok(TString(s)))
         ELSE IF Last(s) = "f" /\ IsFloatText(pre)
           THEN With(FloatOf(pre), LAMBDA fl : Ok(TFloat(fl[1], fl[2], fl[3])))
         ELSE Ok(TString(s)))

\* the array arms of parse_string_value on the decoded payload; Ok(JNull) when the
\* prefix letter is none of B, I, L
parse_array(letter, dec) ==
  IF ~dec.ok THEN Err
  ELSE IF letter = "B"
    THEN Ok(TByteArray([i \in 1..Len(dec.bytes) |->
              IF dec.bytes[i] >= 128 THEN dec.bytes[i] - 256 ELSE dec.bytes[i]]))
  ELSE IF letter = "I"
    THEN IF ChunksOk(dec.bytes, 4) THEN Ok(TIntArray(ChunkValues(dec.bytes, 4)))
         ELSE Panic
  ELSE IF letter = "L"
    THEN IF ChunksOk(dec.bytes, 8) THEN Ok(TLongArray(ChunkValues(dec.bytes, 8)))
         ELSE Panic
  ELSE Ok(JNull)

parse_string_value(s) ==
  IF EndsWith(s, Marker) THEN Ok(TString(DropLast(s, 2)))
  ELSE With(IF Len(s) > 2 /\ s[2] = ";"
            THEN parse_array(s[1], Base64Decode(DropFirst(s, 2)))
            ELSE Ok(JNull), LAMBDA arr :
         IF arr = Ok(JNull) THEN parse_suffixed(s) ELSE arr)

\* the first child result that is not Ok, in iteration order, or Ok
FirstFailure(rs) ==
  IF \E i \in 1..Len(rs) : ~rs[i].ok
  THEN rs[CHOOSE i \in 1..Len(rs) : ~rs[i].ok /\ \A j \in 1..(i - 1) : rs[j].ok]
  ELSE Ok(JNull)

\* the Number arm with every integer outside the 32-bit range taken as a Long
number_to_nbt_all_long(j) ==
  IF j.f = "int"
  THEN IF j.n >= I32Min /\ j.n <= I32Max THEN Ok(TInt(j.n)) ELSE Ok(TLong(j.n))
  ELSE IF j.f \in {"i64", "u64"} THEN Ok(TLongText(j.s))
  ELSE Ok(TDouble(j.f, j.n, j.e))
\* the JsonValue::Number arm: as_i64 first, then as_f64
number_to_nbt(j) ==
  IF j.f = "int"
  THEN IF j.n >= I32Min /\ j.n <= I32Max THEN Ok(TInt(j.n)) ELSE Ok(TLong(j.n))
  ELSE IF j.f = "i64" THEN Ok(TLongText(j.s))
  ELSE IF j.f = "u64" THEN Ok(TDoubleNear(j.s))
  ELSE Ok(TDouble(j.f, j.n, j.e))

RECURSIVE json_to_nbt(_)
json_to_nbt(j) ==
  CASE j.t = "obj" ->
         IF Cardinality(DOMAIN j.m) = 1 /\ "[]" \in DOMAIN j.m THEN Ok(TList(<<>>))
         ELSE LET rs == [k \in DOMAIN j.m |-> json_to_nbt(j.m[k])]
              IN IF \E k \in DOMAIN rs : rs[k].panic THEN Panic
                 ELSE IF \E k \in DOMAIN rs : ~rs[k].ok THEN Err
                 ELSE Ok(TCompound([k \in DOMAIN rs |-> rs[k].v]))
    [] j.t = "arr" ->
         LET rs == [i \in 1..Len(j.l) |-> json_to_nbt(j.l[i])]
             ff == FirstFailure(rs)
         IN IF ~ff.ok THEN ff ELSE Ok(TList([i \in 1..Len(rs) |-> rs[i].v]))
    [] j.t = "str" -> parse_string_value(j.s)
    [] j.t = "num" -> number_to_nbt(j)
    [] j.t = "bool" -> Ok(TByte(j.n))
    [] j.t = "null" -> Ok(TByte(0))

(***************************************************************************)
(* The tag values drawn as codec inputs.                                   *)
(***************************************************************************)
SeqsUpTo(S, k) == UNION {[1..n -> S] : n \in 0..k}
StrAlphabet == {"5", "b", "B", ";", "\\", "0", "a"}
ExtraStrings == {<<"1", ".", "5", "f">>, <<"i", "n", "f", "b">>, <<"-", "5", "L">>,
                 <<"1", "e", "5", "s">>, <<"3", "0", "0", "b">>, <<"B", ";", "A", "A", "=", "=">>,
                 <<"I", ";", "A", "A", "=", "=">>, <<"x", ";", "A", "A", "=", "=">>,
                 <<".", "b">>, <<"+", "5", "b">>, <<"5", "d">>}
Strings == SeqsUpTo(StrAlphabet, MaxStrLen) \cup ExtraStrings
Scalars ==
  {TByte(v) : v \in {-128, -1, 0, 5, 127}} \cup {TShort(v) : v \in {-32768, 0, 300}}
  \cup {TInt(v) : v \in {I32Min, -1, 0, 7, I32Max}} \cup {TLong(v) : v \in {-5, 0, 7, 300}}
  \cup {TFloat("fin", 15, -1), TFloat("fin", 2, 0), TFloat("fin", -5, -2), TFloat("fin", 3, 2),
        TFloat("fin", 0, 0), TFloat("negzero", 0, 0), TFloat("inf", 0, 0),
        TFloat("neginf", 0, 0), TFloat("nan", 0, 0)}
  \cup {TDouble("fin", 15, -1), TDouble("fin", 2, 0), TDouble("fin", -5, -2),
        TDouble("fin", 0, 0), TDouble("negzero", 0, 0), TDouble("inf", 0, 0),
        TDouble("neginf", 0, 0), TDouble("nan", 0, 0)}
Arrays ==
  {TByteArray(a) : a \in SeqsUpTo({-128, -1, 0, 65}, MaxArrLen)}
  \cup {TIntArray(a) : a \in SeqsUpTo({I32Min, -1, 0, 258}, MaxArrLen)}
  \cup {TLongArray(a) : a \in SeqsUpTo({-1, 0, 258}, MaxArrLen)}
Leaves == Scalars \cup {TString(s) : s \in Strings} \cup Arrays
Core == {TByte(5), TInt(7), TLong(-1), TString(<<"5", "b">>), TString(<<"a">>),
         TByteArray(<<>>), TList(<<>>)}
Level1 ==
  {TList(l) : l \in SeqsUpTo(Core, MaxListLen)}
  \cup {TCompound(m) : m \in UNION {[K -> Core] : K \in SUBSET {"k", "[]"}}}
Level2 == {TList(<<x>>) : x \in Level1} \cup {TCompound("k" :> x) : x \in Level1}
TagValues == Leaves \cup Level1 \cup Level2

(***************************************************************************)
(* The region container (src/src/mca.rs).  A file is its byte length, its  *)
(* location table (the slots whose four bytes are not all zero) and, for   *)
(* each sector at which a payload header was put, that header: the 4-byte  *)
(* length, the compression byte, and what the bytes after them hold (how   *)
(* they are encoded, how many they are, and the tag they encode).  Bytes   *)
(* nobody wrote are zero.  The length zlib gives a record's tag is an      *)
(* attribute of the record (clen).                                         *)
(***************************************************************************)
SECTOR_SIZE == 4096
NumSlots == 1024

NoFile == [exists |-> FALSE, len |-> 0, loc |-> EmptyMap, sec |-> EmptyMap]
ChunkData(x, z, data, clen) == [x |-> x, z |-> z, data |-> data, clen |-> clen]
ZeroLoc    == [off |-> 0, cnt |-> 0]
ZeroHeader == [length |-> 0, comp |-> 0, enc |-> "zero", clen |-> 0, nbt |-> JNull]
LocAt(f, i)    == IF i \in DOMAIN f.loc THEN f.loc[i] ELSE ZeroLoc
HeaderAt(f, s) == IF s \in DOMAIN f.sec THEN f.sec[s] ELSE ZeroHeader

\* the low 31 bits of the two's-complement i32 v (bit 31 is the sign)
Low31(v) == IF v >= 0 THEN v ELSE v - I32Min
\* variant: the truncating remainder v % 32 of Rust
And31Rem(v) == IF v >= 0 THEN v % 32 ELSE -((-(v + 32)) % 32)
\* i32 & 31: the five low bits of v
And31(v) == Low31(v) % 32
SlotIndex(c) == And31(c.x) + And31(c.z) * 32
\* variant: the sector count rounded down
SectorCountFloor(c) == (c.clen + 5) \div SECTOR_SIZE
SectorCount(c) == (c.clen + 5 + SECTOR_SIZE - 1) \div SECTOR_SIZE
\* sector_count as u8
AsU8(n) == n % 256
\* the three low bytes of current_sector
Low3(n) == n % 16777216

RECURSIVE WriteLoop(_, _, _, _)
\* the for loop of write_mca over chunks[i..], from the state (loc, sec, current_sector)
WriteLoop(chunks, loc, sec, cur) ==
  IF chunks = <<>> THEN [loc |-> loc, sec |-> sec, cur |-> cur]
  ELSE LET c  == chunks[1]
           sc == SectorCount(c)
           h  == [length |-> c.clen + 1, comp |-> 2, enc |-> "zlib", clen |-> c.clen,
                  nbt |-> c.data]
           e  == [off |-> Low3(cur), cnt |-> AsU8(sc)]
       IN WriteLoop(DropFirst(chunks, 1),
                    (SlotIndex(c) :> e) @@ loc,
                    (cur :> h) @@ sec,
                    cur + sc)

\* write_mca(path, chunks): the file at path afterwards, given the file before
write_mca(before, chunks) ==
  IF chunks = <<>> THEN before
  ELSE LET w == WriteLoop(chunks, EmptyMap, EmptyMap, 2)
       IN [exists |-> TRUE, len |-> w.cur * SECTOR_SIZE,
           loc |-> [i \in {j \in DOMAIN w.loc : w.loc[j] # ZeroLoc} |-> w.loc[i]],
           sec |-> w.sec]

\* &data[start..end] is in bounds
SliceOk(start, end, len) == start <= end /\ end <= len

\* variant: a tag that does not decode returns the error
SlotOutcomePropagate(f, i) ==
  LET e      == LocAt(f, i)
      co     == e.off * SECTOR_SIZE
      h      == HeaderAt(f, e.off)
      length == h.length
      whole  == length - 1 >= h.clen
  IN IF e.off = 0 \/ e.cnt = 0 THEN "skip"
     ELSE IF co + 5 > f.len THEN "skip"
     ELSE IF co + 5 + length - 1 > f.len THEN "skip"
     ELSE IF ~SliceOk(co + 5, co + 4 + length, f.len) THEN "panic"
     ELSE IF h.comp = 1 /\ ~(h.enc = "gzip" /\ whole) THEN "err"
     ELSE IF h.comp = 2 /\ ~(h.enc = "zlib" /\ whole) THEN "err"
     ELSE IF h.comp \notin {1, 2, 3} THEN "skip"
     ELSE IF h.comp = 3 /\ ~(h.enc = "raw" /\ whole) THEN "err"
     ELSE IF h.nbt = JNull THEN "err"
     ELSE "push"

\* what one iteration of read_mca's loop does with slot i:
\* "skip" (continue), "push", "warn" (the tag does not decode), "err" (? returns), "panic"
SlotOutcome(f, i) ==
  LET e      == LocAt(f, i)
      co     == e.off * SECTOR_SIZE
      h      == HeaderAt(f, e.off)
      length == h.length
      \* the decoder is given the length - 1 bytes after the header
      whole  == length - 1 >= h.clen
  IN IF e.off = 0 \/ e.cnt = 0 THEN "skip"
     ELSE IF co + 5 > f.len THEN "skip"
     ELSE IF co + 5 + length - 1 > f.len THEN "skip"
     ELSE IF ~SliceOk(co + 5, co + 4 + length, f.len) THEN "panic"
     ELSE IF h.comp = 1 /\ ~(h.enc = "gzip" /\ whole) THEN "err"
     ELSE IF h.comp = 2 /\ ~(h.enc = "zlib" /\ whole) THEN "err"
     ELSE IF h.comp \notin {1, 2, 3} THEN "skip"
     ELSE IF h.comp = 3 /\ ~(h.enc = "raw" /\ whole) THEN "warn"
     ELSE IF h.nbt = JNull THEN "warn"
     ELSE "push"

RECURSIVE SortedSeq(_)
SortedSeq(S) == IF S = {} THEN <<>>
                ELSE LET lo == CHOOSE x \in S : \A y \in S : x <= y
                     IN <<lo>> \o SortedSeq(S \ {lo})

ReadOk(chunks) == [ok |-> TRUE, panic |-> FALSE, chunks |-> chunks]
ReadErr        == [ok |-> FALSE, panic |-> FALSE, chunks |-> <<>>]
ReadPanic      == [ok |-> FALSE, panic |-> TRUE, chunks |-> <<>>]

\* read_mca(path).  Slots outside the location table's non-zero entries have
\* offset 0 and are skipped, so the loop over 0..1024 is the loop over these.
read_mca(f) ==
  LET slots == {i \in DOMAIN f.loc : i \in 0..(NumSlots - 1)}
      stop  == {i \in slots : SlotOutcome(f, i) \in {"err", "panic"}}
      first == CHOOSE i \in stop : \A j \in stop : i <= j
      kept  == SortedSeq({i \in slots : SlotOutcome(f, i) = "push"})
  IN IF ~f.exists THEN ReadErr
     ELSE IF f.len < SECTOR_SIZE * 2 THEN ReadOk(<<>>)
     ELSE IF stop # {} THEN (IF SlotOutcome(f, first) = "panic" THEN ReadPanic ELSE ReadErr)
     ELSE ReadOk([k \in 1..Len(kept) |->
                    [x |-> kept[k] % 32, z |-> kept[k] \div 32,
                     data |-> HeaderAt(f, LocAt(f, kept[k]).off).nbt]])

(***************************************************************************)
(* Records drawn as container inputs.                                      *)
(***************************************************************************)
RecCoordsX == {-1, 0, 33}
RecCoordsZ == {-32, 1}
RecTags == {TCompound("id" :> TInt(1)), TCompound("id" :> TInt(2))}
\* compressed lengths filling 1, 2, 255 and 256 sectors
RecSizes == {100, 4092, 1044475, 1044476}
Records == {ChunkData(x, z, d, n) : x \in RecCoordsX, z \in RecCoordsZ, d \in RecTags, n \in RecSizes}
RecordLists == SeqsUpTo(Records, MaxRecords)

DistinctSlots(cs) == \A i, j \in 1..Len(cs) : i # j => SlotIndex(cs[i]) # SlotIndex(cs[j])
Range(q) == {q[i] : i \in 1..Len(q)}

(***************************************************************************)
(* read_mca on arbitrary buffers: any length, any location entries in two  *)
(* slots, any header at the sectors they can name.                         *)
(***************************************************************************)
BufSlots == {0, 33}
LocChoices == {ZeroLoc, [off |-> 2, cnt |-> 1], [off |-> 3, cnt |-> 1], [off |-> 2, cnt |-> 0],
               [off |-> 4, cnt |-> 1]}
BufLens == {4096, 8192, 8196, 8197, 12288, 12293, 16384}
BufLengths == {0, 1, 101, 4092, 1073741824}
BufComps == {1, 2, 3, 7}
BufTag == TCompound("id" :> TInt(1))
\* what the bytes after a header hold: an encoding, its length, the tag (JNull: not a tag)
BufBodies == {[enc |-> "zlib", clen |-> 100, nbt |-> BufTag],
              [enc |-> "gzip", clen |-> 100, nbt |-> BufTag],
              [enc |-> "raw", clen |-> 100, nbt |-> BufTag],
              [enc |-> "zlib", clen |-> 100, nbt |-> JNull],
              [enc |-> "junk", clen |-> 0, nbt |-> JNull]}
Headers2 == {[length |-> n, comp |-> c, enc |-> b.enc, clen |-> b.clen, nbt |-> b.nbt] :
               n \in BufLengths, c \in BufComps, b \in BufBodies}
Headers3 == {ZeroHeader,
             [length |-> 101, comp |-> 2, enc |-> "zlib", clen |-> 100,
              nbt |-> TCompound("id" :> TInt(2))],
             [length |-> 101, comp |-> 2, enc |-> "junk", clen |-> 0, nbt |-> JNull]}
Buffers ==
  {[exists |-> TRUE, len |-> n,
    loc |-> [i \in {j \in BufSlots : l[j] # ZeroLoc} |-> l[i]],
    sec |-> (2 :> h2) @@ (3 :> h3)] :
     n \in BufLens, l \in [BufSlots -> LocChoices], h2 \in Headers2, h3 \in Headers3}

\* one record at positions over the whole i32 range, for the slot index
SlotCoords == {I32Min, I32Min + 1, -1025, -33, -32, -31, -1, 0, 1, 31, 32, 33, 1023, I32Max}
SlotRecords == {<<ChunkData(x, z, BufTag, 100)>> : x \in SlotCoords, z \in SlotCoords}

(***************************************************************************)
(* Slicing (src/src/export.rs).  A serialized record is known by its index *)
(* in the list handed to write_region_sliced and by its length in bytes; a *)
(* slice file is the records put in it and the bytes written.              *)
(***************************************************************************)
MAX_SLICE_SIZE == 8 * 1024 * 1024
WrapperOpenLen  == 12      \* {"chunks":[ and a line feed
WrapperCloseLen == 3       \* ]} and a line feed

RECURSIVE SumUpTo(_, _, _)
SumUpTo(chunks, sizes, n) ==
  IF n = 0 THEN 0 ELSE SumUpTo(chunks, sizes, n - 1) + sizes[chunks[n]]
\* chunks.iter().map(|s| s.len()).sum()
SumLens(chunks, sizes) == SumUpTo(chunks, sizes, Len(chunks))

\* write_chunks_direct(path, chunks): the file written
write_chunks_direct(chunks, sizes) ==
  [chunks |-> chunks,
   bytes  |-> WrapperOpenLen + SumLens(chunks, sizes)
              + (Len(chunks) - 1)       \* a comma after every record but the last
              + Len(chunks)             \* a line feed after every record
              + WrapperCloseLen]

SliceStart == [slice_id |-> 0, current_slice |-> <<>>, current_size |-> 0, out |-> EmptyMap]

\* a loop that starts the next slice empty: the record that did not fit is not pushed
SliceIterDrop(st, idx, sizes) ==
  IF st.current_slice # <<>> /\ st.current_size + sizes[idx] > MAX_SLICE_SIZE
  THEN [slice_id |-> st.slice_id + 1, current_slice |-> <<>>, current_size |-> 0,
        out |-> (st.slice_id :> write_chunks_direct(st.current_slice, sizes)) @@ st.out]
  ELSE [st EXCEPT !.current_slice = Append(@, idx), !.current_size = @ + sizes[idx]]

\* one iteration of write_region_sliced's loop, for the record at index idx
SliceIter(st, idx, sizes) ==
  LET flush == st.current_slice # <<>> /\ st.current_size + sizes[idx] > MAX_SLICE_SIZE
      a == IF flush
           THEN [slice_id |-> st.slice_id + 1, current_slice |-> <<>>, current_size |-> 0,
                 out |-> (st.slice_id :> write_chunks_direct(st.current_slice, sizes)) @@ st.out]
           ELSE st
  IN [a EXCEPT !.current_slice = Append(@, idx), !.current_size = @ + sizes[idx]]

\* after the loop: the last slice is written
SliceLast(st, sizes) ==
  IF st.current_slice # <<>>
  THEN [st EXCEPT !.out = (st.slice_id :> write_chunks_direct(st.current_slice, sizes)) @@ @]
  ELSE st

RECURSIVE SliceLoop(_, _, _)
SliceLoop(st, idx, sizes) ==
  IF idx > Len(sizes) THEN st
  ELSE With(SliceIter(st, idx, sizes), LAMBDA nx : SliceLoop(nx, idx + 1, sizes))
\* write_region_sliced(output_dir, rx, rz, chunks): the slice files, by slice id
write_region_sliced(sizes) ==
  With(SliceLoop(SliceStart, 1, sizes), LAMBDA st : SliceLast(st, sizes).out)

\* the record lists of the slice files, in slice-id order
OutChunks(o) == Flatten([k \in 1..Cardinality(DOMAIN o) |-> o[k - 1].chunks])
Ident(n) == [i \in 1..n |-> i]

SerSizes == {13, 4194304, 4194305, 8388608, 8388609}
SerLists == SeqsUpTo(SerSizes, MaxSliceRecs)

(***************************************************************************)
(* Denoise and restore (src/src/denoise.rs), on tag values.                *)
(***************************************************************************)
SECTION_LIGHT_FIELDS == <<"BlockLight", "SkyLight">>

\* HashMap::remove
MapRemove(m, k) == [x \in DOMAIN m \ {k} |-> m[x]]
RECURSIVE RemoveFields(_, _)
\* for field in fields { map.remove(field); }
RemoveFields(m, fields) ==
  IF fields = <<>> THEN m ELSE RemoveFields(MapRemove(m, fields[1]), DropFirst(fields, 1))

\* map.insert(k, v): a present key is overwritten
MapInsert(m, k, v) == (k :> v) @@ m
\* map.entry(k).or_insert(v)
OrInsert(m, k, v) == IF k \in DOMAIN m THEN m ELSE (k :> v) @@ m

\* the light fields are removed from every compound element of the list under "sections"
DenoiseSections(m) ==
  IF "sections" \in DOMAIN m /\ m["sections"].t = "List"
  THEN [m EXCEPT !["sections"] =
          TList([i \in 1..Len(@.l) |->
                   IF @.l[i].t = "Compound"
                   THEN TCompound(RemoveFields(@.l[i].m, SECTION_LIGHT_FIELDS))
                   ELSE @.l[i]])]
  ELSE m

denoise_chunk_with_config(value, aggressive, config) ==
  IF value.t = "Compound"
  THEN LET m1 == RemoveFields(value.m, config.chunk.fields)
           m2 == DenoiseSections(m1)
           m3 == IF aggressive THEN RemoveFields(m2, config.chunk.aggressive_fields) ELSE m2
       IN TCompound(m3)
  ELSE value

\* the defaults inserted unconditionally: a value present is overwritten
restore_defaults_overwrite(value) ==
  IF value.t = "Compound"
  THEN TCompound(MapInsert(MapInsert(MapInsert(value.m,
                   "LastUpdate", TLong(0)), "InhabitedTime", TLong(0)), "isLightOn", TByte(0)))
  ELSE value

restore_defaults(value) ==
  IF value.t = "Compound"
  THEN TCompound(OrInsert(OrInsert(OrInsert(value.m,
                   "LastUpdate", TLong(0)), "InhabitedTime", TLong(0)), "isLightOn", TByte(0)))
  ELSE value

\* ChunkDenoiseConfig::default()
DefaultChunkFields == <<"LastUpdate", "InhabitedTime", "blending_data", "PostProcessing", "isLightOn">>
DefaultAggressiveFields == <<"Heightmaps">>
DenoiseConfig(fields, aggressive_fields) ==
  [chunk |-> [fields |-> fields, aggressive_fields |-> aggressive_fields]]
DefaultDenoiseConfig == DenoiseConfig(DefaultChunkFields, DefaultAggressiveFields)

\* the configurations and the record roots drawn as inputs
FieldLists == {<<>>, DefaultChunkFields, <<"LastUpdate">>,
               <<"isLightOn", "InhabitedTime", "LastUpdate">>}
AggressiveLists == {<<>>, DefaultAggressiveFields, <<"isLightOn">>,
                    <<"InhabitedTime", "isLightOn", "LastUpdate">>}
DenoiseConfigs == {DenoiseConfig(f, a) : f \in FieldLists, a \in AggressiveLists}
LitSection == TCompound(("Y" :> TByte(0)) @@ ("BlockLight" :> TByteArray(<<0>>)))
SectionsChoices == {TList(<<LitSection, TInt(3)>>), TString(<<"a">>)}
RestoredKeys == {"LastUpdate", "InhabitedTime", "isLightOn"}
RecordRoots ==
  {TInt(1)} \cup
  {TCompound([k \in K |->
                CASE k = "LastUpdate" -> TLong(7)
                  [] k = "InhabitedTime" -> TLong(300)
                  [] k = "isLightOn" -> TByte(5)
                  [] k = "Heightmaps" -> TCompound(EmptyMap)
                  [] OTHER -> TInt(7)]) : K \in SUBSET (RestoredKeys \cup {"Heightmaps"})}
  \cup {TCompound(("sections" :> sv) @@ [k \in K |-> TLong(7)]) :
          sv \in SectionsChoices, K \in SUBSET {"LastUpdate"}}

(***************************************************************************)
(* denoise_level_with_config, on the root of level.dat.                    *)
(***************************************************************************)
\* the level part of DenoiseConfig
LevelDenoiseConfig(fields, reset_weather) ==
  [level |-> [fields |-> fields, reset_weather |-> reset_weather]]
\* LevelDenoiseConfig::default(), the field list
DefaultLevelFields ==
  <<"Time", "DayTime", "LastPlayed", "thunderTime", "rainTime", "clearWeatherTime",
    "WanderingTraderSpawnChance", "WanderingTraderSpawnDelay", "WanderingTraderId",
    "ServerBrands", "WasModded">>

\* variant: the weather keys are inserted only where absent
denoise_level_with_config_merge(value, config) ==
  IF value.t = "Compound" /\ "Data" \in DOMAIN value.m /\ value.m["Data"].t = "Compound"
  THEN LET d1 == RemoveFields(value.m["Data"].m, config.level.fields)
           d2 == IF config.level.reset_weather
                 THEN OrInsert(OrInsert(d1, "raining", TByte(0)), "thundering", TByte(0))
                 ELSE d1
       IN TCompound([value.m EXCEPT !["Data"] = TCompound(d2)])
  ELSE value

denoise_level_with_config(value, config) ==
  IF value.t = "Compound" /\ "Data" \in DOMAIN value.m /\ value.m["Data"].t = "Compound"
  THEN LET d1 == RemoveFields(value.m["Data"].m, config.level.fields)
           d2 == IF config.level.reset_weather
                 THEN MapInsert(MapInsert(d1, "raining", TByte(0)), "thundering", TByte(0))
                 ELSE d1
       IN TCompound([value.m EXCEPT !["Data"] = TCompound(d2)])
  ELSE value

\* the configurations and the level roots drawn as inputs
LevelFieldLists == {<<>>, <<"Time">>, <<"raining", "Time">>, DefaultLevelFields}
LevelConfigs == {LevelDenoiseConfig(f, w) : f \in LevelFieldLists, w \in BOOLEAN}
LevelDataKeys == {"Time", "raining", "thundering", "LevelName"}
LevelData ==
  {TCompound([k \in K |->
                CASE k = "Time" -> TLong(7)
                  [] k = "raining" -> TByte(1)
                  [] k = "thundering" -> TByte(1)
                  [] OTHER -> TString(<<"w">>)]) : K \in SUBSET LevelDataKeys}
LevelRoots ==
  {TInt(1), TCompound(EmptyMap), TCompound("Data" :> TInt(1))}
  \cup {TCompound("Data" :> d) : d \in LevelData}
  \cup {TCompound(("Data" :> d) @@ ("version" :> TInt(2))) : d \in LevelData}

(***************************************************************************)
(* Pruning of record documents (src/src/export.rs).                        *)
(***************************************************************************)
Air          == <<"a", "i", "r">>
MinecraftAir == <<"m", "i", "n", "e", "c", "r", "a", "f", "t", ":">> \o Air
Stone        == <<"s", "t", "o", "n", "e">>

None    == [some |-> FALSE, v |-> JNull]
Some(v) == [some |-> TRUE, v |-> v]
\* serde_json::Value::get(key): the member of an object, None on anything else
JGet(v, k) == IF v.t = "obj" /\ k \in DOMAIN v.m THEN Some(v.m[k]) ELSE None

\* a section is empty whatever the "data" key says
is_empty_section_any_data(sec) ==
  IF sec.t = "obj" /\ JGet(sec, "block_states").some
  THEN LET palette == JGet(JGet(sec, "block_states").v, "palette")
       IN IF palette.some /\ palette.v.t = "arr" /\ Len(palette.v.l) = 1
          THEN LET n == JGet(palette.v.l[1], "Name")
               IN n.some /\ n.v.t = "str" /\ n.v.s \in {Air, MinecraftAir}
          ELSE FALSE
  ELSE FALSE

is_empty_section(sec) ==
  IF sec.t = "obj"
  THEN LET bs == JGet(sec, "block_states")
       IN IF bs.some
          THEN IF JGet(bs.v, "data").some THEN FALSE
               ELSE LET palette == JGet(bs.v, "palette")
                    IN IF palette.some /\ palette.v.t = "arr" /\ Len(palette.v.l) = 1
                       THEN LET n    == JGet(palette.v.l[1], "Name")
                                \* .and_then(|n| n.as_str()).unwrap_or("")
                                name == IF n.some /\ n.v.t = "str" THEN n.v.s ELSE <<>>
                            IN name = Air \/ name = MinecraftAir
                       ELSE FALSE
          ELSE FALSE
  ELSE FALSE

filter_empty_sections(chunk) ==
  IF chunk.t = "obj" /\ JGet(chunk, "sections").some /\ JGet(chunk, "sections").v.t = "arr"
  THEN LET Keep(sec) == ~is_empty_section(sec)
       IN JObject([chunk.m EXCEPT !["sections"] = JArray(SelectSeq(@.l, Keep))])
  ELSE chunk

\* the sections and record documents drawn as inputs
Block(name) == JObject("Name" :> name)
BlockStates(palette) == JObject("palette" :> palette)
WithData(bs, d) == JObject(("data" :> d) @@ bs.m)
Section(bs) == JObject(("Y" :> JString(<<"0", "b">>)) @@ ("block_states" :> bs))
SectionShapes ==
  {JObject("Y" :> JString(<<"0", "b">>)),
   Section(BlockStates(JArray(<<Block(JString(Air))>>))),
   Section(BlockStates(JArray(<<Block(JString(MinecraftAir))>>))),
   Section(BlockStates(JArray(<<Block(JString(Stone))>>))),
   Section(WithData(BlockStates(JArray(<<Block(JString(MinecraftAir))>>)), JString(<<"L", ";">>))),
   Section(WithData(BlockStates(JArray(<<Block(JString(Air))>>)), JNull)),
   Section(BlockStates(JArray(<<Block(JString(MinecraftAir)), Block(JString(Stone))>>))),
   Section(BlockStates(JArray(<<Block(JString(MinecraftAir)), Block(JString(MinecraftAir))>>))),
   Section(BlockStates(JObject("[]" :> JString(EndText)))),
   Section(BlockStates(JArray(<<Block(JInt(0))>>))),
   Section(BlockStates(JArray(<<JString(MinecraftAir)>>))),
   Section(JString(MinecraftAir)),
   Section(JObject(EmptyMap)),
   JString(MinecraftAir),
   JObject(("biomes" :> BlockStates(JArray(<<JString(Stone)>>)))
           @@ Section(BlockStates(JArray(<<Block(JString(MinecraftAir))>>))).m)}
SectionLists == SeqsUpTo(SectionShapes, MaxSections)
RecordDocs ==
  {JObject(("Status" :> JString(Stone)) @@ ("sections" :> JArray(l))) : l \in SectionLists}
  \cup {JObject("Status" :> JString(Stone)),
        JObject("sections" :> JObject("[]" :> JString(EndText))),
        JObject("sections" :> Section(BlockStates(JArray(<<Block(JString(Air))>>)))),
        JArray(<<Section(BlockStates(JArray(<<Block(JString(Air))>>)))>>)}

\* only an object or array without members is empty: the empty-list marker is not
is_empty_json_value_no_marker(v) ==
  CASE v.t = "obj" -> DOMAIN v.m = {}
    [] v.t = "arr" -> v.l = <<>>
    [] OTHER -> FALSE

is_empty_json_value(v) ==
  CASE v.t = "obj" -> (Cardinality(DOMAIN v.m) = 1 /\ "[]" \in DOMAIN v.m) \/ DOMAIN v.m = {}
    [] v.t = "arr" -> v.l = <<>>
    [] OTHER -> FALSE

RECURSIVE filter_empty_values(_)
filter_empty_values(value) ==
  CASE value.t = "obj" ->
         With([k \in DOMAIN value.m |-> filter_empty_values(value.m[k])], LAMBDA m :
           JObject([k \in {x \in DOMAIN m : ~is_empty_json_value(m[x])} |-> m[k]]))
    [] value.t = "arr" -> JArray([i \in 1..Len(value.l) |-> filter_empty_values(value.l[i])])
    [] OTHER -> value

\* the documents drawn as inputs of filter_empty_values: empty values as members and as
\* elements, and containers whose only children are empty
Sentinel == JObject("[]" :> JString(EndText))
ValueLeaves == {JInt(1), JObject(EmptyMap), JArray(<<>>), Sentinel}
Wrap(S) == S \cup {JObject("a" :> v) : v \in S} \cup {JArray(<<v>>) : v \in S}
ValueDocs == Wrap(Wrap(ValueLeaves))
             \cup {JObject(("a" :> v) @@ ("b" :> w)) : v, w \in Wrap(ValueLeaves)}
             \cup {JArray(<<v, w>>) : v, w \in ValueLeaves}

\* variant: only a non-empty "sections" array counts as data
has_chunk_data_sections(chunk) ==
  /\ chunk.t = "obj"
  /\ JGet(chunk, "sections").some
  /\ JGet(chunk, "sections").v.t = "arr"
  /\ JGet(chunk, "sections").v.l # <<>>
has_chunk_data(chunk) ==
  /\ chunk.t = "obj"
  /\ \/ /\ JGet(chunk, "sections").some
        /\ JGet(chunk, "sections").v.t = "arr"
        /\ JGet(chunk, "sections").v.l # <<>>
     \/ /\ JGet(chunk, "block_entities").some
        /\ JGet(chunk, "block_entities").v.t = "arr"
        /\ JGet(chunk, "block_entities").v.l # <<>>

MinecraftFull == <<"m", "i", "n", "e", "c", "r", "a", "f", "t", ":", "f", "u", "l", "l">>
Full          == <<"f", "u", "l", "l">>
is_full_chunk(data) ==
  /\ data.t = "Compound"
  /\ "Status" \in DOMAIN data.m
  /\ data.m["Status"].t = "String"
  /\ data.m["Status"].s \in {MinecraftFull, Full}

(***************************************************************************)
(* Container file names (src/src/mca.rs).  The pattern                     *)
(* r\.(-?\d+)\.(-?\d+)\.mca is searched for anywhere in the name; the      *)
(* names drawn are ASCII, where \d is a decimal digit.                     *)
(***************************************************************************)
\* the literal lit at position i of s
LitAt(s, i, lit) == i + Len(lit) - 1 <= Len(s) /\ SubSeq(s, i, i + Len(lit) - 1) = lit
\* the end of the longest run of digits starting at position i (i - 1 if none)
RECURSIVE DigitRunEnd(_, _)
DigitRunEnd(s, i) == IF i <= Len(s) /\ s[i] \in Digits THEN DigitRunEnd(s, i + 1) ELSE i - 1
\* (-?\d+) at position i
GroupAt(s, i) ==
  LET st == IF i <= Len(s) /\ s[i] = "-" THEN i + 1 ELSE i
      e  == DigitRunEnd(s, st)
  IN [ok |-> e >= st, end |-> e, text |-> SubSeq(s, i, e)]
\* the whole pattern at position i
MatchAt(s, i) ==
  IF ~LitAt(s, i, <<"r", ".">>) THEN [ok |-> FALSE, g1 |-> <<>>, g2 |-> <<>>]
  ELSE LET a == GroupAt(s, i + 2)
       IN IF ~a.ok \/ ~LitAt(s, a.end + 1, <<".">>) THEN [ok |-> FALSE, g1 |-> <<>>, g2 |-> <<>>]
          ELSE LET b == GroupAt(s, a.end + 2)
               IN IF b.ok /\ LitAt(s, b.end + 1, <<".", "m", "c", "a">>)
                  THEN [ok |-> TRUE, g1 |-> a.text, g2 |-> b.text]
                  ELSE [ok |-> FALSE, g1 |-> <<>>, g2 |-> <<>>]
\* Regex::captures: the leftmost match
Captures(s) ==
  IF \E i \in 1..Len(s) : MatchAt(s, i).ok
  THEN MatchAt(s, CHOOSE i \in 1..Len(s) :
                    MatchAt(s, i).ok /\ \A j \in 1..(i - 1) : ~MatchAt(s, j).ok)
  ELSE [ok |-> FALSE, g1 |-> <<>>, g2 |-> <<>>]

NoCoords == [some |-> FALSE, rx |-> 0, rz |-> 0]
parse_mca_filename(filename) ==
  LET caps == Captures(filename)
      rx   == ParseInt(caps.g1, I32Min, I32Max)
      rz   == ParseInt(caps.g2, I32Min, I32Max)
  IN IF caps.ok /\ rx.ok /\ rz.ok
     THEN [some |-> TRUE, rx |-> rx.v, rz |-> rz.v]
     ELSE NoCoords

\* the names drawn as inputs: lead, r, separator, number, ., number, extension, tail
NameLeads == {<<>>, <<"x">>, <<"r", ".", "1", ".">>}
NameSeps  == {<<".">>, <<>>}
NameNums  == {<<"0">>, <<"-", "1">>, <<"1", "2">>, <<"0", "0", "7">>, <<"-">>, <<>>,
              <<"1", "a">>, <<"-", "-", "1">>, <<"+", "1">>,
              <<"2", "1", "4", "7", "4", "8", "3", "6", "4", "7">>,
              <<"2", "1", "4", "7", "4", "8", "3", "6", "4", "8">>,
              <<"-", "2", "1", "4", "7", "4", "8", "3", "6", "4", "8">>}
NameExts  == {<<".", "m", "c", "a">>, <<".", "m", "c">>, <<"m", "c", "a">>}
NameTails == {<<>>, <<".", "b", "a", "k">>}
FileNames ==
  {l \o <<"r">> \o s \o a \o <<".">> \o b \o e \o t :
     l \in NameLeads, s \in NameSeps, a \in NameNums, b \in NameNums,
     e \in NameExts, t \in NameTails}

(***************************************************************************)
(* Document text (serde_json::to_string and from_str), as the sequence of  *)
(* tokens written: punctuation, strings, member keys, numbers in their     *)
(* decimal text, literals.  The length of a text is its length in bytes.   *)
(***************************************************************************)
Tok(k, s, key) == [k |-> k, s |-> s, key |-> key]
Punct(c)   == Tok(c, <<>>, "")
StrTok(s)  == Tok("str", s, "")
KeyTok(k)  == Tok("key", <<>>, k)
NumTok(s)  == Tok("num", s, "")
LitTok(w)  == Tok("lit", <<>>, w)

\* the members of a map in the order the map iterates
RECURSIVE KeysSeq(_)
KeysSeq(S) == IF S = {} THEN <<>>
              ELSE With(CHOOSE x \in S : TRUE, LAMBDA k :
                     With(S \ {k}, LAMBDA rest : <<k>> \o KeysSeq(rest)))

\* a number as serde_json writes it: an integer in decimal, a float with a fraction
NumberText(d) ==
  IF d.f = "int" THEN IntText(d.n)
  ELSE IF d.f \in {"i64", "u64"} THEN d.s
  ELSE IF d.f = "negzero" THEN <<"-", "0", ".", "0">>
  ELSE IF d.e >= 0 THEN FloatText(d.f, d.n, d.e) \o <<".", "0">>
  ELSE FloatText(d.f, d.n, d.e)

RECURSIVE JoinUpTo(_, _)
JoinUpTo(parts, n) ==
  IF n = 0 THEN <<>>
  ELSE IF n = 1 THEN parts[1]
  ELSE JoinUpTo(parts, n - 1) \o <<Punct(",")>> \o parts[n]
\* the parts with a comma between them
JoinComma(parts) == JoinUpTo(parts, Len(parts))

RECURSIVE to_string(_)
to_string(d) ==
  CASE d.t = "null" -> <<LitTok("null")>>
    [] d.t = "bool" -> <<LitTok(IF d.n = 1 THEN "true" ELSE "false")>>
    [] d.t = "num"  -> <<NumTok(NumberText(d))>>
    [] d.t = "str"  -> <<StrTok(d.s)>>
    [] d.t = "arr"  ->
         <<Punct("[")>> \o JoinComma([i \in 1..Len(d.l) |-> to_string(d.l[i])]) \o <<Punct("]")>>
    [] d.t = "obj"  ->
         With(KeysSeq(DOMAIN d.m), LAMBDA ks :
           <<Punct("{")>>
           \o JoinComma([i \in 1..Len(ks) |->
                           <<KeyTok(ks[i]), Punct(":")>> \o to_string(d.m[ks[i]])])
           \o <<Punct("}")>>)

\* bytes of a string in its quotes: a quote or a backslash is written escaped
RECURSIVE EscapedUpTo(_, _)
EscapedUpTo(s, n) ==
  IF n = 0 THEN 0 ELSE EscapedUpTo(s, n - 1) + (IF s[n] \in {"\\", "\""} THEN 2 ELSE 1)
EscapedLen(s) == EscapedUpTo(s, Len(s))
TokLen(t) ==
  CASE t.k = "str" -> 2 + EscapedLen(t.s)
    [] t.k = "key" -> 2 + Len(t.key)
    [] t.k = "num" -> Len(t.s)
    [] t.k = "lit" -> Len(t.key)
    [] OTHER -> 1
RECURSIVE TextLenUpTo(_, _)
TextLenUpTo(ts, n) == IF n = 0 THEN 0 ELSE TextLenUpTo(ts, n - 1) + TokLen(ts[n])
\* String::len of a serialized document
TextLen(ts) == TextLenUpTo(ts, Len(ts))

\* decimal digit strings without leading zeros, compared as numbers
DigitsLess(a, b) ==
  \/ Len(a) < Len(b)
  \/ /\ Len(a) = Len(b)
     /\ \E i \in 1..Len(a) : /\ DigitVal(a[i]) < DigitVal(b[i])
                             /\ \A j \in 1..(i - 1) : a[j] = b[j]
DigitsLE(a, b) == a = b \/ DigitsLess(a, b)
I64MaxText == <<"9", "2", "2", "3", "3", "7", "2", "0", "3", "6", "8", "5", "4", "7", "7", "5",
                "8", "0", "7">>
I64MinText == <<"9", "2", "2", "3", "3", "7", "2", "0", "3", "6", "8", "5", "4", "7", "7", "5",
                "8", "0", "8">>
U64MaxText == <<"1", "8", "4", "4", "6", "7", "4", "4", "0", "7", "3", "7", "0", "9", "5", "5",
                "1", "6", "1", "5">>

\* a number read back: a text without fraction and exponent is an integer when it fits
\* u64 (positive) or i64 (negative), except -0; every other text is a float
NumberClass(s) ==
  IF IndexOf(s, {".", "e", "E"}) # 0 \/ s = <<"-", "0">> THEN "float"
  ELSE IF ParseInt(s, I64Lo, I64Hi).ok THEN "int"
  ELSE IF s # <<>> /\ s[1] = "-"
    THEN IF DigitsLE(DropFirst(s, 1), I64MinText) THEN "i64" ELSE "float"
  ELSE IF DigitsLE(s, I64MaxText) THEN "i64"
  ELSE IF DigitsLE(s, U64MaxText) THEN "u64"
  ELSE "float"
ParseNumber(s) ==
  With(NumberClass(s), LAMBDA c :
    IF c = "int" THEN JInt(ParseInt(s, I64Lo, I64Hi).v)
    ELSE IF c = "float" THEN With(FloatOf(s), LAMBDA f : JFloat(f[1], f[2], f[3]))
    ELSE JBigInt(c, s))

(***************************************************************************)
(* The document numbers drawn as inputs of the Number arm of json_to_nbt.  *)
(***************************************************************************)
NarrowInts == {I32Min, I32Min + 1, -1000000, -65537, -65536, -32769, -32768, -256, -129,
               -128, -7, -1, 0, 1, 7, 10, 100, 127, 128, 255, 256, 1000, 32767, 32768, 65535,
               65536, 1000000, I32Max - 1, I32Max}
WideTexts == {<<"2", "1", "4", "7", "4", "8", "3", "6", "4", "8">>,
              <<"2", "1", "4", "7", "4", "8", "3", "6", "4", "9">>,
              <<"4", "2", "9", "4", "9", "6", "7", "2", "9", "6">>,
              <<"9", "2", "2", "3", "3", "7", "2", "0", "3", "6", "8", "5", "4", "7", "7", "5", "8", "0", "6">>,
              <<"9", "2", "2", "3", "3", "7", "2", "0", "3", "6", "8", "5", "4", "7", "7", "5", "8", "0", "7">>,
              <<"9", "2", "2", "3", "3", "7", "2", "0", "3", "6", "8", "5", "4", "7", "7", "5", "8", "0", "8">>,
              <<"9", "2", "2", "3", "3", "7", "2", "0", "3", "6", "8", "5", "4", "7", "7", "5", "8", "0", "9">>,
              <<"1", "8", "4", "4", "6", "7", "4", "4", "0", "7", "3", "7", "0", "9", "5", "5", "1", "6", "1", "5">>,
              <<"-", "2", "1", "4", "7", "4", "8", "3", "6", "4", "9">>,
              <<"-", "4", "2", "9", "4", "9", "6", "7", "2", "9", "6">>,
              <<"-", "9", "2", "2", "3", "3", "7", "2", "0", "3", "6", "8", "5", "4", "7", "7", "5", "8", "0", "7">>,
              <<"-", "9", "2", "2", "3", "3", "7", "2", "0", "3", "6", "8", "5", "4", "7", "7", "5", "8", "0", "8">>,
              <<"-", "0">>}
FloatTexts == {<<"1", ".", "5">>,
               <<"0", ".", "5">>,
               <<"5", ".", "0">>,
               <<"-", "2", ".", "2", "5">>,
               <<"1", "e", "3">>,
               <<"1", "E", "3">>,
               <<"2", ".", "5", "e", "-", "1">>,
               <<"0", ".", "0">>,
               <<"-", "0", ".", "0">>,
               <<"1", "e", "-", "2">>,
               <<"3", ".", "2", "5">>,
               <<"-", "7", ".", "5">>,
               <<"1", "2", ".", "0">>}
NumberTexts == {IntText(v) : v \in NarrowInts} \cup WideTexts \cup FloatTexts
ScalarDocs == {ParseNumber(s) : s \in NumberTexts} \cup {JBool(TRUE), JBool(FALSE), JNull}

\* array-prefixed document strings whose payload decodes to 0..9 bytes, some that are
\* not base64, and documents that hold them
PayloadBytes == {[i \in 1..n |-> b] : n \in 0..9, b \in {0, 255}}
ArrayStrings ==
  {<<p, ";">> \o Base64Encode(b) : p \in {"B", "I", "L", "x"}, b \in PayloadBytes}
  \cup {<<"I", ";", "A">>, <<"L", ";", "=", "=">>, <<"B", ";", "A", "A", "A">>}
StringDocs ==
  {JString(s) : s \in ArrayStrings}
  \cup {JArray(<<JInt(1), JString(s)>>) : s \in {<<"I", ";">> \o Base64Encode(<<0, 0, 0, 0, 0>>),
                                                <<"I", ";">> \o Base64Encode(<<0, 0, 0, 1>>)}}
  \cup {JObject("a" :> JString(<<"L", ";">> \o Base64Encode(<<0, 0, 0, 1>>)))}

NoParse == [ok |-> FALSE, v |-> JNull, next |-> 0]
Parsed(v, next) == [ok |-> TRUE, v |-> v, next |-> next]
IsTok(ts, i, k) == i <= Len(ts) /\ ts[i].k = k

RECURSIVE ParseValue(_, _), ParseElems(_, _, _), ParseMembers(_, _, _)
\* the value starting at token i
ParseValue(ts, i) ==
  IF i > Len(ts) THEN NoParse
  ELSE CASE ts[i].k = "lit" ->
              Parsed(IF ts[i].key = "null" THEN JNull ELSE JBool(ts[i].key = "true"), i + 1)
         [] ts[i].k = "num" -> Parsed(ParseNumber(ts[i].s), i + 1)
         [] ts[i].k = "str" -> Parsed(JString(ts[i].s), i + 1)
         [] ts[i].k = "["   ->
              IF IsTok(ts, i + 1, "]") THEN Parsed(JArray(<<>>), i + 2)
              ELSE ParseElems(ts, i + 1, <<>>)
         [] ts[i].k = "{"   ->
              IF IsTok(ts, i + 1, "}") THEN Parsed(JObject(EmptyMap), i + 2)
              ELSE ParseMembers(ts, i + 1, EmptyMap)
         [] OTHER -> NoParse
\* the elements of an array from token i on, after those in acc
ParseElems(ts, i, acc) ==
  With(ParseValue(ts, i), LAMBDA e :
    IF ~e.ok THEN NoParse
    ELSE With(Append(acc, e.v), LAMBDA l :
           IF IsTok(ts, e.next, ",") THEN ParseElems(ts, e.next + 1, l)
           ELSE IF IsTok(ts, e.next, "]") THEN Parsed(JArray(l), e.next + 1)
           ELSE NoParse))
\* the members of an object from token i on, after those in acc; a repeated key
\* takes its last value
ParseMembers(ts, i, acc) ==
  IF ~(IsTok(ts, i, "key") /\ IsTok(ts, i + 1, ":")) THEN NoParse
  ELSE With(ParseValue(ts, i + 2), LAMBDA e :
         IF ~e.ok THEN NoParse
         ELSE With([k \in DOMAIN acc \cup {ts[i].key} |->
                      IF k = ts[i].key THEN e.v ELSE acc[k]], LAMBDA m :
                IF IsTok(ts, e.next, ",") THEN ParseMembers(ts, e.next + 1, m)
                ELSE IF IsTok(ts, e.next, "}") THEN Parsed(JObject(m), e.next + 1)
                ELSE NoParse))

\* serde_json::from_str: one value, then the end of the text
from_str(text) ==
  With(text, LAMBDA ts :
    With(ParseValue(ts, 1), LAMBDA p :
      IF p.ok /\ p.next = Len(ts) + 1 THEN Ok(p.v) ELSE Err))

(***************************************************************************)
(* Export of one container and restore of its slice files                  *)
(* (src/src/export.rs, src/src/restore.rs).                                *)
(***************************************************************************)
\* FieldMapper: a table of long key names and their short names
NoMapping     == [long |-> <<>>, short |-> <<>>]
SampleMapping == [long |-> <<"Status", "block_ticks">>, short |-> <<"S", "bt">>]
RenameKey(k, from, to) ==
  IF \E i \in 1..Len(from) : from[i] = k
  THEN to[CHOOSE i \in 1..Len(from) : from[i] = k] ELSE k
RECURSIVE RenameKeys(_, _, _)
RenameKeys(json, from, to) ==
  CASE json.t = "obj" ->
         LET Old(n) == CHOOSE k \in DOMAIN json.m : RenameKey(k, from, to) = n
         IN JObject([n \in {RenameKey(k, from, to) : k \in DOMAIN json.m} |->
                       RenameKeys(json.m[Old(n)], from, to)])
    [] json.t = "arr" -> JArray([i \in 1..Len(json.l) |-> RenameKeys(json.l[i], from, to)])
    [] OTHER -> json
shorten_json_keys(json, mapper) == RenameKeys(json, mapper.long, mapper.short)
restore_json_keys(json, mapper) == RenameKeys(json, mapper.short, mapper.long)

\* variant: the status is tested on the record after denoising
ExportChunkStatusLate(chunk, o) ==
  LET data  == IF o.denoise
               THEN denoise_chunk_with_config(chunk.data, o.aggressive, o.denoise_config)
               ELSE chunk.data
      Coords(json) == IF json.t = "obj"
                      THEN JObject(MapInsert(MapInsert(json.m, "x", JInt(chunk.x)),
                                             "z", JInt(chunk.z)))
                      ELSE json
  IN With(filter_empty_values(filter_empty_sections(Coords(nbt_to_json(data)))), LAMBDA json :
       [push |-> is_full_chunk(data) /\ ~(o.skip_empty_chunks /\ ~has_chunk_data(json)),
        json |-> shorten_json_keys(json, o.field_mapper)])

\* the body of the loop over the records read: the document pushed, if any
ExportChunk(chunk, o) ==
  LET data  == IF o.denoise
               THEN denoise_chunk_with_config(chunk.data, o.aggressive, o.denoise_config)
               ELSE chunk.data
      Coords(json) == IF json.t = "obj"
                      THEN JObject(MapInsert(MapInsert(json.m, "x", JInt(chunk.x)),
                                             "z", JInt(chunk.z)))
                      ELSE json
  IN With(filter_empty_values(filter_empty_sections(Coords(nbt_to_json(data)))), LAMBDA json :
       [push |-> is_full_chunk(chunk.data) /\ ~(o.skip_empty_chunks /\ ~has_chunk_data(json)),
        json |-> shorten_json_keys(json, o.field_mapper)])

NoSlices == EmptyMap
\* export_mca_with_config: Err, or the slice files written, by slice id; a slice
\* file is the serialized records in it and its length
export_mca_with_config(f, o) ==
  LET Pushed(e) == e.push
      SlicesOf(serialized) ==
        With([i \in 1..Len(serialized) |-> TextLen(serialized[i])], LAMBDA sizes :
          With(write_region_sliced(sizes), LAMBDA written :
            [id \in DOMAIN written |->
               [chunks |-> [i \in 1..Len(written[id].chunks) |->
                              serialized[written[id].chunks[i]]],
                bytes |-> written[id].bytes]]))
  IN With(read_mca(f), LAMBDA r :
       IF r.panic THEN [ok |-> FALSE, panic |-> TRUE, files |-> NoSlices]
       ELSE IF ~r.ok THEN [ok |-> FALSE, panic |-> FALSE, files |-> NoSlices]
       ELSE With(SelectSeq([i \in 1..Len(r.chunks) |-> ExportChunk(r.chunks[i], o)], Pushed),
                 LAMBDA all_chunks :
              With([i \in 1..Len(all_chunks) |-> to_string(all_chunks[i].json)],
                   LAMBDA serialized :
                [ok |-> TRUE, panic |-> FALSE, files |-> SlicesOf(serialized)])))

\* the compressed length of a restored record: a record of the inputs drawn
\* compresses into less than a sector
SmallPayload == 100

\* variant: a record without an integer x or z is placed at 0
RestoreChunkDefaultCoords(text, restore_default_values, mapper) ==
  LET IsI64(g) == g.some /\ g.v.t = "num" /\ g.v.f = "int"
      Coord(g) == IF IsI64(g) THEN g.v.n ELSE 0
      Body(json) == IF json.t = "obj" THEN JObject(MapRemove(MapRemove(json.m, "x"), "z"))
                    ELSE json
  IN With(from_str(text), LAMBDA parsed :
       IF ~parsed.ok THEN Err
       ELSE With(restore_json_keys(parsed.v, mapper), LAMBDA json :
              With(json_to_nbt(Body(json)), LAMBDA value :
                IF ~value.ok THEN value
                ELSE Ok(ChunkData(Coord(JGet(json, "x")), Coord(JGet(json, "z")),
                                  IF restore_default_values
                                  THEN restore_defaults(value.v) ELSE value.v,
                                  SmallPayload)))))

\* the body of the loop over a slice file's records
RestoreChunk(text, restore_default_values, mapper) ==
  LET \* .and_then(|v| v.as_i64())
      IsI64(g) == g.some /\ g.v.t = "num" /\ g.v.f = "int"
      Body(json) == IF json.t = "obj" THEN JObject(MapRemove(MapRemove(json.m, "x"), "z"))
                    ELSE json
  IN With(from_str(text), LAMBDA parsed :
       IF ~parsed.ok THEN Err
       ELSE With(restore_json_keys(parsed.v, mapper), LAMBDA json :
              IF ~IsI64(JGet(json, "x")) \/ ~IsI64(JGet(json, "z")) THEN Err
              ELSE With(json_to_nbt(Body(json)), LAMBDA value :
                     IF ~value.ok THEN value
                     ELSE Ok(ChunkData(JGet(json, "x").v.n, JGet(json, "z").v.n,
                                       IF restore_default_values
                                       THEN restore_defaults(value.v) ELSE value.v,
                                       SmallPayload)))))

\* one slice file: json.get("chunks").and_then(|v| v.as_array()) is None for a document
\* without the key, else the records are restored one by one
RestoreFile(f, restore_default_values, mapper) ==
  IF "chunks" \notin DOMAIN f THEN <<Err>>
  ELSE [i \in 1..Len(f.chunks) |-> RestoreChunk(f.chunks[i], restore_default_values, mapper)]

\* restore_region_slices_with_config over the slice files in the order files[0],
\* files[1], ..: Err, or the container file after the call
restore_region_slices_with_config(files, before, restore_default_values, mapper) ==
  With(Flatten([k \in 1..Cardinality(DOMAIN files) |->
                  RestoreFile(files[k - 1], restore_default_values, mapper)]), LAMBDA rs :
    IF ~FirstFailure(rs).ok
    THEN [ok |-> FALSE, panic |-> FirstFailure(rs).panic, file |-> before]
    ELSE [ok |-> TRUE, panic |-> FALSE,
          file |-> IF rs # <<>> THEN write_mca(before, [i \in 1..Len(rs) |-> rs[i].v])
                   ELSE before])

\* level.dat: absent, or the gzip of the tag written into it
NoLevelDat    == [exists |-> FALSE, nbt |-> JNull]
LevelDat(nbt) == [exists |-> TRUE, nbt |-> nbt]
\* restore_level_dat_with_config: Err, or level.dat after the call.  fastnbt::to_bytes
\* takes only a compound at the root; File::create comes after every `?` on the input
restore_level_dat_with_config(text, before, mapper) ==
  With(from_str(text), LAMBDA parsed :
    IF ~parsed.ok \/ ~JGet(parsed.v, "_data").some
    THEN [ok |-> FALSE, panic |-> FALSE, file |-> before]
    ELSE With(json_to_nbt(restore_json_keys(JGet(parsed.v, "_data").v, mapper)), LAMBDA value :
           IF ~value.ok THEN [ok |-> FALSE, panic |-> value.panic, file |-> before]
           ELSE IF value.v.t # "Compound" THEN [ok |-> FALSE, panic |-> FALSE, file |-> before]
           ELSE [ok |-> TRUE, panic |-> FALSE, file |-> LevelDat(value.v)]))

\* the records and options drawn as inputs
StoneSection ==
  TCompound(("Y" :> TByte(0))
            @@ ("block_states" :>
                  TCompound("palette" :> TList(<<TCompound("Name" :> TString(Stone))>>))))
PipeIntKeys == {"DataVersion", "x"}
PipeInts    == {-1, 7, I32Max}
PipeLongs   == {-5, 0, 300}
PipeExtras  == {EmptyMap, "LastUpdate" :> TLong(7), "sections" :> TList(<<StoneSection>>)}
PipeRoots ==
  {TCompound(extra @@ ("Status" :> TString(MinecraftFull)) @@ (ik :> TInt(iv))
             @@ ("Seed" :> TLong(lv)) @@ ("block_ticks" :> TList(<<>>))) :
     extra \in PipeExtras, ik \in PipeIntKeys, iv \in PipeInts, lv \in PipeLongs}
PipePositions == {<<0, 0>>, <<-1, 33>>}
PipeOptions ==
  [denoise : BOOLEAN, aggressive : {FALSE}, denoise_config : {DefaultDenoiseConfig},
   skip_empty_chunks : BOOLEAN, restore_default_values : BOOLEAN,
   field_mapper : {NoMapping, SampleMapping}]

\* containers of one or two records of any status, and the options, drawn for export
StatusChoices == {TString(MinecraftFull), TString(Full), TString(<<"F", "u", "l", "l">>),
                  TString(<<"e", "m", "p", "t", "y">>), TInt(1)}
ExportRoots ==
  {TInt(1), TCompound("DataVersion" :> TInt(7))}
  \cup {TCompound(("Status" :> st) @@ ("DataVersion" :> TInt(7))) : st \in StatusChoices}
  \cup {TCompound(("Status" :> TString(MinecraftFull)) @@ ("sections" :> TList(<<StoneSection>>)))}
AirSection ==
  TCompound(("Y" :> TByte(0))
            @@ ("block_states" :>
                  TCompound("palette" :> TList(<<TCompound("Name" :> TString(MinecraftAir))>>))))
\* fully generated records whose data is only air, only block entities, or no array
DataRoots ==
  {TCompound(("Status" :> TString(MinecraftFull)) @@ ("sections" :> TList(<<AirSection>>))),
   TCompound(("Status" :> TString(Full)) @@ ("sections" :> TList(<<>>))
             @@ ("block_entities" :> TList(<<TCompound("id" :> TString(Stone))>>))),
   TCompound(("Status" :> TString(Full)) @@ ("sections" :> TString(Stone))
             @@ ("block_entities" :> TList(<<TCompound(EmptyMap)>>)))}
StatusConfig == DenoiseConfig(<<"Status">>, <<>>)
ExportOptions ==
  [denoise : BOOLEAN, aggressive : {FALSE}, denoise_config : {DefaultDenoiseConfig, StatusConfig},
   skip_empty_chunks : BOOLEAN, restore_default_values : {FALSE},
   field_mapper : {NoMapping, SampleMapping}]
ExportContainers ==
  {write_mca(NoFile, <<ChunkData(0, 0, a, SmallPayload)>>) : a \in ExportRoots \cup DataRoots}
  \cup {write_mca(NoFile, <<ChunkData(0, 0, a, SmallPayload), ChunkData(1, 2, b, SmallPayload)>>) :
          a \in ExportRoots \cup DataRoots, b \in ExportRoots \cup DataRoots}

(***************************************************************************)
(* The parallel dispatch of export_world_with_config and                   *)
(* restore_world_with_config over one region directory (src/src/export.rs  *)
(* 123-153, src/src/restore.rs 129-173).  A directory is a set of entries, *)
(* a name and the file's content; a job is one item of the par_iter.       *)
(***************************************************************************)
MaxEntries == 2      \* most entries of the region directory

\* Path::extension: what follows the last dot, none for a name without one or whose
\* only dot is its first character
Extension(name) ==
  LET dots == {i \in 2..Len(name) : name[i] = "."}
  IN IF dots = {} THEN <<>>
     ELSE SubSeq(name, (CHOOSE i \in dots : \A j \in dots : j <= i) + 1, Len(name))
Mca == <<"m", "c", "a">>

\* format!("r.{}.{}.{}.json", rx, rz, slice_id)
SlicePath(rx, rz, id) ==
  <<"r", ".">> \o IntText(rx) \o <<".">> \o IntText(rz) \o <<".">> \o IntText(id)
    \o <<".", "j", "s", "o", "n">>
\* format!("r.{}.{}.mca", rx, rz)
RegionPath(rx, rz) == <<"r", ".">> \o IntText(rx) \o <<".">> \o IntText(rz) \o <<".">> \o Mca

\* the options of the batch
WorldOptions ==
  [denoise |-> FALSE, aggressive |-> FALSE, denoise_config |-> DefaultDenoiseConfig,
   skip_empty_chunks |-> FALSE, restore_default_values |-> FALSE, field_mapper |-> NoMapping]

JobDone(paths) == [st |-> "done", paths |-> paths]
JobFailed      == [st |-> "failed", paths |-> {}]
JobPanicked    == [st |-> "panicked", paths |-> {}]

\* one item of mca_files.par_iter(): export_mca_with_config on the entry, its Err caught
ExportJob(job) ==
  With(parse_mca_filename(job.name), LAMBDA p :
    IF ~p.some THEN JobFailed
    ELSE With(export_mca_with_config(job.content, WorldOptions), LAMBDA r :
           IF r.panic THEN JobPanicked
           ELSE IF ~r.ok THEN JobFailed
           ELSE JobDone({SlicePath(p.rx, p.rz, id) : id \in DOMAIN r.files})))

\* r\.(-?\d+)\.(-?\d+)\.(\d+)\.json at position i
SliceMatchAt(s, i) ==
  LET none == [ok |-> FALSE, g1 |-> <<>>, g2 |-> <<>>]
  IN IF ~LitAt(s, i, <<"r", ".">>) THEN none
     ELSE LET a == GroupAt(s, i + 2)
          IN IF ~a.ok \/ ~LitAt(s, a.end + 1, <<".">>) THEN none
             ELSE LET b == GroupAt(s, a.end + 2)
                  IN IF ~b.ok \/ ~LitAt(s, b.end + 1, <<".">>) THEN none
                     ELSE LET e == DigitRunEnd(s, b.end + 2)
                          IN IF e >= b.end + 2 /\ LitAt(s, e + 1, <<".", "j", "s", "o", "n">>)
                             THEN [ok |-> TRUE, g1 |-> a.text, g2 |-> b.text]
                             ELSE none
\* region_re.captures(filename)
SliceCaptures(s) ==
  IF \E i \in 1..Len(s) : SliceMatchAt(s, i).ok
  THEN SliceMatchAt(s, CHOOSE i \in 1..Len(s) :
                         SliceMatchAt(s, i).ok /\ \A j \in 1..(i - 1) : ~SliceMatchAt(s, j).ok)
  ELSE [ok |-> FALSE, g1 |-> <<>>, g2 |-> <<>>]

\* the key of one entry in the grouping loop: none (no match), Err (a number does not
\* parse as i32) or the pair (rx, rz)
GroupKey(name) ==
  LET caps == SliceCaptures(name)
      rx   == ParseInt(caps.g1, I32Min, I32Max)
      rz   == ParseInt(caps.g2, I32Min, I32Max)
  IN IF ~caps.ok THEN [match |-> FALSE, ok |-> TRUE, key |-> <<0, 0>>]
     ELSE IF ~rx.ok \/ ~rz.ok THEN [match |-> TRUE, ok |-> FALSE, key |-> <<0, 0>>]
     ELSE [match |-> TRUE, ok |-> TRUE, key |-> <<rx.v, rz.v>>]

\* region_files: for each key the contents of its files, in the order they were pushed
GroupFiles(order, key) ==
  LET Mine(e) == GroupKey(e.name).match /\ GroupKey(e.name).key = key
      mine    == SelectSeq(order, Mine)
  IN [k \in 0..(Len(mine) - 1) |-> mine[k + 1].content]

\* one item of region_list.par_iter(): restore_region_slices_with_config, its Err caught
RestoreJob(job) ==
  With(restore_region_slices_with_config(job.content, NoFile, WorldOptions.restore_default_values,
                                         WorldOptions.field_mapper), LAMBDA r :
    IF r.panic THEN JobPanicked
    ELSE IF ~r.ok THEN JobFailed
    ELSE JobDone(IF r.file.exists THEN {RegionPath(job.name[1], job.name[2])} ELSE {}))

RECURSIVE SetToSeq(_)
SetToSeq(S) == IF S = {} THEN <<>>
               ELSE With(CHOOSE x \in S : TRUE, LAMBDA x : <<x>> \o SetToSeq(S \ {x}))
\* the sequences that enumerate S once each: the orders read_dir can give
Orders(S) == {q \in [1..Cardinality(S) -> S] : \A i, j \in DOMAIN q : q[i] = q[j] => i = j}

(***************************************************************************)
(* Directories drawn as inputs.                                            *)
(***************************************************************************)
\* containers: one full record; a payload that does not decompress; a zero length prefix
FullTag == TCompound(("Status" :> TString(MinecraftFull)) @@ ("DataVersion" :> TInt(7)))
GoodContainer == write_mca(NoFile, <<ChunkData(0, 0, FullTag, SmallPayload)>>)
BadContainer ==
  [exists |-> TRUE, len |-> 3 * SECTOR_SIZE, loc |-> (0 :> [off |-> 2, cnt |-> 1]),
   sec |-> (2 :> [length |-> 101, comp |-> 2, enc |-> "junk", clen |-> 0, nbt |-> JNull])]
ZeroLengthContainer ==
  [exists |-> TRUE, len |-> 3 * SECTOR_SIZE, loc |-> (0 :> [off |-> 2, cnt |-> 1]),
   sec |-> (2 :> ZeroHeader)]
ContainerNames ==
  {<<"r", ".", "0", ".", "0", ".", "m", "c", "a">>,
   <<"r", ".", "0", "0", ".", "0", ".", "m", "c", "a">>,
   <<"x", "r", ".", "0", ".", "0", ".", "m", "c", "a">>,
   <<"r", ".", "-", "1", ".", "0", ".", "m", "c", "a">>,
   <<"r", ".", "a", ".", "0", ".", "m", "c", "a">>,
   <<"r", ".", "0", ".", "0", ".", "m", "c", "a", ".", "b", "a", "k">>}
\* slice files: one record; a record that is no document
GoodSlice ==
  [chunks |-> <<to_string(JObject(("x" :> JInt(0)) @@ ("z" :> JInt(0))
                                    @@ ("DataVersion" :> JInt(7))))>>,
   bytes |-> 0]
BadSlice == [chunks |-> <<<<Punct("{")>>>>, bytes |-> 0]
SliceNames ==
  {<<"r", ".", "0", ".", "0", ".", "0", ".", "j", "s", "o", "n">>,
   <<"r", ".", "0", ".", "0", ".", "1", ".", "j", "s", "o", "n">>,
   <<"r", ".", "0", "0", ".", "0", ".", "2", ".", "j", "s", "o", "n">>,
   <<"r", ".", "-", "1", ".", "0", ".", "0", ".", "j", "s", "o", "n">>,
   <<"r", ".", "0", ".", "0", ".", "j", "s", "o", "n">>}
\* the directories of at most MaxEntries entries with names from N and contents from C
Directories(N, C) ==
  UNION {{{[name |-> n, content |-> f[n]] : n \in names} : f \in [names -> C]} :
           names \in {S \in SUBSET N : Cardinality(S) <= MaxEntries}}

(***************************************************************************)
(* Slice files of one region drawn for restore_region_slices_with_config:  *)
(* records in different slots, and records of different files in one slot. *)
(***************************************************************************)
RecordText(x, z, v) ==
  to_string(JObject(("x" :> JInt(x)) @@ ("z" :> JInt(z)) @@ ("DataVersion" :> JInt(v))))
OrderRecords == {RecordText(0, 0, 7), RecordText(0, 0, 8), RecordText(1, 0, 7),
                 RecordText(32, 0, 9)}
OrderFiles == {[chunks |-> q, bytes |-> 0] :
                 q \in {<<a>> : a \in OrderRecords}
                        \cup {<<a, b>> : a, b \in OrderRecords}
                        \cup {<<>>, <<<<Punct("{")>>>>}}
OrderSlices == [0..1 -> OrderFiles]
               \cup [0..2 -> {f \in OrderFiles : Len(f.chunks) = 1}]

(***************************************************************************)
(* Restore inputs with and without their required keys.                    *)
(***************************************************************************)
TaskRecords ==
  {RecordText(0, 0, 7), RecordText(1, 0, 7),
   to_string(JObject(("z" :> JInt(0)) @@ ("DataVersion" :> JInt(7)))),
   to_string(JObject(("x" :> JInt(0)) @@ ("DataVersion" :> JInt(7)))),
   to_string(JObject(("x" :> JString(<<"0">>)) @@ ("z" :> JInt(0)))),
   to_string(JObject(("x" :> JInt(0)) @@ ("z" :> JFloat("fin", 15, -1)))),
   to_string(JObject("DataVersion" :> JInt(7))),
   to_string(JArray(<<JInt(0), JInt(0)>>))}
TaskFiles == {[chunks |-> q, bytes |-> 0] :
                q \in {<<a>> : a \in TaskRecords} \cup {<<RecordText(0, 0, 7), a>> : a \in TaskRecords}}
             \cup {[bytes |-> 0]}
TaskSlices == [0..0 -> TaskFiles] \cup [0..1 -> TaskFiles]
OldContainer == write_mca(NoFile, <<ChunkData(5, 5, FullTag, SmallPayload)>>)
OldLevelDat == LevelDat(TCompound("Data" :> TCompound("version" :> TInt(1))))
LevelPayloads == {JObject("Data" :> JObject("version" :> JInt(2))),
                  JObject("Data" :> JObject("LevelName" :> JString(<<"w">>))),
                  JObject(EmptyMap)}
LevelTexts ==
  {to_string(JObject(("_data" :> d) @@ ("_version" :> JInt(1)))) : d \in LevelPayloads}
  \cup {to_string(JObject("_data" :> d)) : d \in LevelPayloads}
  \cup {to_string(JObject((k :> d) @@ ("_version" :> JInt(1)))) :
          k \in {"data", "_Data", "Data"}, d \in LevelPayloads}
  \cup {to_string(JObject(EmptyMap)), to_string(JArray(<<JObject("_data" :> JObject(EmptyMap))>>)),
        to_string(JObject("_version" :> JInt(1))), to_string(JString(<<"_", "d", "a", "t", "a">>))}
(***************************************************************************)
(* The state machines.  Each specification runs one component; the rest    *)
(* of the state stays idle.                                                *)
(***************************************************************************)
CodecIdle == tag = JNull /\ doc = JNull /\ back = Err /\ cpc = "idle"
McaIdle == recs = <<>> /\ file = NoFile /\ rd = ReadErr /\ mpc = "idle"
SliceIdle == /\ ser = <<>> /\ sidx = 0 /\ current_slice = <<>> /\ current_size = 0
             /\ slice_id = 0 /\ out = EmptyMap /\ spc = "idle"
DenoiseIdle == dval = JNull /\ dcfg = JNull /\ daggr = FALSE /\ da = JNull /\ db = JNull /\ dpc = "idle"
PruneIdle == cdoc = JNull /\ fdoc = JNull /\ fpc = "idle"
NameIdle == fname = <<>> /\ fres = [some |-> FALSE, rx |-> 0, rz |-> 0] /\ npc = "idle"
WorldIdle == /\ entries = {} /\ jobs = <<>> /\ state = <<>> /\ wrote = EmptyMap
             /\ ret = "none" /\ wpc = "idle"
LevelDatIdle == level_json = <<>> /\ level_dat = NoLevelDat /\ lpc = "idle"
PipeIdle == src = NoFile /\ opts = JNull /\ slices = EmptyMap /\ dst = NoFile /\ ppc = "idle"

CodecInit == /\ tag \in TagValues
             /\ doc = JNull
             /\ back = Err
             /\ cpc = "start"
             /\ McaIdle /\ SliceIdle /\ DenoiseIdle /\ PruneIdle /\ NameIdle /\ PipeIdle /\ WorldIdle /\ LevelDatIdle

Encode == /\ cpc = "start"
          /\ doc' = nbt_to_json(tag)
          /\ cpc' = "encoded"
          /\ UNCHANGED <<tag, back, OthersCodec>>

Decode == /\ cpc = "encoded"
          /\ back' = json_to_nbt(doc)
          /\ cpc' = "decoded"
          /\ UNCHANGED <<tag, doc, OthersCodec>>

CodecNext == Encode \/ Decode
SpecCodec == CodecInit /\ [][CodecNext]_vars

ScalarInit == /\ tag = JNull
              /\ doc \in ScalarDocs
              /\ back = Err
              /\ cpc = "encoded"
              /\ McaIdle /\ SliceIdle /\ DenoiseIdle /\ PruneIdle /\ NameIdle /\ PipeIdle /\ WorldIdle /\ LevelDatIdle
ScalarNext == Decode
SpecScalar == ScalarInit /\ [][ScalarNext]_vars

StringInit == /\ tag = JNull
              /\ doc \in StringDocs
              /\ back = Err
              /\ cpc = "encoded"
              /\ McaIdle /\ SliceIdle /\ DenoiseIdle /\ PruneIdle /\ NameIdle /\ PipeIdle /\ WorldIdle
              /\ LevelDatIdle
StringNext == Decode
SpecString == StringInit /\ [][StringNext]_vars

McaInit == /\ recs \in RecordLists
           /\ file = NoFile
           /\ rd = ReadErr
           /\ mpc = "start"
           /\ CodecIdle /\ SliceIdle /\ DenoiseIdle /\ PruneIdle /\ NameIdle /\ PipeIdle /\ WorldIdle /\ LevelDatIdle

WriteMca == /\ mpc = "start"
            /\ file' = write_mca(file, recs)
            /\ mpc' = "written"
            /\ UNCHANGED <<recs, rd, OthersMca>>

ReadMca == /\ mpc = "written"
           /\ rd' = read_mca(file)
           /\ mpc' = "read"
           /\ UNCHANGED <<recs, file, OthersMca>>

McaNext == WriteMca \/ ReadMca
SpecMca == McaInit /\ [][McaNext]_vars

ReadInit == /\ recs = <<>>
            /\ file \in Buffers
            /\ rd = ReadErr
            /\ mpc = "written"
            /\ CodecIdle /\ SliceIdle /\ DenoiseIdle /\ PruneIdle /\ NameIdle /\ PipeIdle /\ WorldIdle /\ LevelDatIdle

ReadNext == ReadMca
SpecRead == ReadInit /\ [][ReadNext]_vars

SliceInit == /\ ser \in SerLists
             /\ sidx = 1
             /\ current_slice = <<>>
             /\ current_size = 0
             /\ slice_id = 0
             /\ out = EmptyMap
             /\ spc = "loop"
             /\ CodecIdle /\ McaIdle /\ DenoiseIdle /\ PruneIdle /\ NameIdle /\ PipeIdle /\ WorldIdle /\ LevelDatIdle

SliceState == [slice_id |-> slice_id, current_slice |-> current_slice,
               current_size |-> current_size, out |-> out]

\* for chunk_str in &serialized { .. }
SliceStep == /\ spc = "loop"
             /\ sidx <= Len(ser)
             /\ LET st == SliceIter(SliceState, sidx, ser)
                IN /\ slice_id' = st.slice_id
                   /\ current_slice' = st.current_slice
                   /\ current_size' = st.current_size
                   /\ out' = st.out
             /\ sidx' = sidx + 1
             /\ UNCHANGED <<ser, spc, OthersSlice>>

SliceFinish == /\ spc = "loop"
               /\ sidx > Len(ser)
               /\ out' = SliceLast(SliceState, ser).out
               /\ spc' = "done"
               /\ UNCHANGED <<ser, sidx, current_slice, current_size, slice_id, OthersSlice>>

SliceNext == SliceStep \/ SliceFinish
SpecSlice == SliceInit /\ [][SliceNext]_vars

DenoiseInit == /\ dval \in RecordRoots
               /\ dcfg \in DenoiseConfigs
               /\ daggr \in BOOLEAN
               /\ da = JNull
               /\ db = JNull
               /\ dpc = "start"
               /\ CodecIdle /\ McaIdle /\ SliceIdle /\ PruneIdle /\ NameIdle /\ PipeIdle /\ WorldIdle /\ LevelDatIdle

\* restore_defaults(&mut value)
RestoreDefaults == /\ dpc = "start"
                   /\ da' = restore_defaults(dval)
                   /\ dpc' = "restored"
                   /\ UNCHANGED <<dval, dcfg, daggr, db, OthersDenoise>>
\* denoise_chunk_with_config on the restored value
DenoiseRestored == /\ dpc = "restored"
                   /\ da' = denoise_chunk_with_config(da, daggr, dcfg)
                   /\ dpc' = "denoised"
                   /\ UNCHANGED <<dval, dcfg, daggr, db, OthersDenoise>>
\* denoise_chunk_with_config on the value as given
DenoiseAlone == /\ dpc = "denoised"
                /\ db' = denoise_chunk_with_config(dval, daggr, dcfg)
                /\ dpc' = "done"
                /\ UNCHANGED <<dval, dcfg, daggr, da, OthersDenoise>>

DenoiseNext == RestoreDefaults \/ DenoiseRestored \/ DenoiseAlone
SpecDenoise == DenoiseInit /\ [][DenoiseNext]_vars

LevelInit == /\ dval \in LevelRoots
             /\ dcfg \in LevelConfigs
             /\ daggr = FALSE
             /\ da = JNull
             /\ db = JNull
             /\ dpc = "level"
             /\ CodecIdle /\ McaIdle /\ SliceIdle /\ PruneIdle /\ NameIdle /\ PipeIdle /\ WorldIdle /\ LevelDatIdle

\* denoise_level_with_config(&mut value, config)
DenoiseLevel == /\ dpc = "level"
                /\ da' = denoise_level_with_config(dval, dcfg)
                /\ dpc' = "levelled"
                /\ UNCHANGED <<dval, dcfg, daggr, db, OthersDenoise>>

LevelNext == DenoiseLevel
SpecLevel == LevelInit /\ [][LevelNext]_vars

PruneInit == /\ cdoc \in RecordDocs
             /\ fdoc = JNull
             /\ fpc = "start"
             /\ CodecIdle /\ McaIdle /\ SliceIdle /\ DenoiseIdle /\ NameIdle /\ PipeIdle /\ WorldIdle /\ LevelDatIdle

\* filter_empty_sections(&mut json)
FilterSections == /\ fpc = "start"
                  /\ fdoc' = filter_empty_sections(cdoc)
                  /\ fpc' = "filtered"
                  /\ UNCHANGED <<cdoc, OthersPrune>>

PruneNext == FilterSections
SpecPrune == PruneInit /\ [][PruneNext]_vars

ValuesInit == /\ cdoc \in ValueDocs
              /\ fdoc = JNull
              /\ fpc = "values"
              /\ CodecIdle /\ McaIdle /\ SliceIdle /\ DenoiseIdle /\ NameIdle /\ PipeIdle /\ WorldIdle /\ LevelDatIdle

\* filter_empty_values(&mut json)
FilterValues == /\ fpc = "values"
                /\ fdoc' = filter_empty_values(cdoc)
                /\ fpc' = "pruned"
                /\ UNCHANGED <<cdoc, OthersPrune>>

ValuesNext == FilterValues
SpecValues == ValuesInit /\ [][ValuesNext]_vars

NameInit == /\ fname \in FileNames
            /\ fres = NoCoords
            /\ npc = "start"
            /\ CodecIdle /\ McaIdle /\ SliceIdle /\ DenoiseIdle /\ PruneIdle /\ PipeIdle /\ WorldIdle /\ LevelDatIdle

\* parse_mca_filename(filename)
ParseName == /\ npc = "start"
             /\ fres' = parse_mca_filename(fname)
             /\ npc' = "parsed"
             /\ UNCHANGED <<fname, OthersName>>

NameNext == ParseName
SpecName == NameInit /\ [][NameNext]_vars

PipeInit == /\ \E root \in PipeRoots, p \in PipePositions :
                 src = write_mca(NoFile, <<ChunkData(p[1], p[2], root, SmallPayload)>>)
            /\ opts \in PipeOptions
            /\ slices = NoSlices
            /\ dst = NoFile
            /\ ppc = "start"
            /\ CodecIdle /\ McaIdle /\ SliceIdle /\ DenoiseIdle /\ PruneIdle /\ NameIdle /\ WorldIdle /\ LevelDatIdle

\* export_mca_with_config on the source container
ExportMca == /\ ppc = "start"
             /\ \E r \in {export_mca_with_config(src, opts)} :
                  /\ slices' = r.files
                  /\ ppc' = IF r.ok THEN "exported" ELSE "failed"
             /\ UNCHANGED <<src, opts, dst, OthersPipe>>

\* restore_region_slices_with_config on the slice files of the region; a region
\* without slice files is not restored at all
RestoreRegion == /\ ppc = "exported"
                 /\ \E r \in {IF slices = NoSlices
                              THEN [ok |-> TRUE, panic |-> FALSE, file |-> dst]
                              ELSE restore_region_slices_with_config(
                                     slices, dst, opts.restore_default_values,
                                     opts.field_mapper)} :
                      /\ dst' = r.file
                      /\ ppc' = IF r.ok THEN "restored" ELSE "failed"
                 /\ UNCHANGED <<src, opts, slices, OthersPipe>>

PipeNext == ExportMca \/ RestoreRegion
SpecPipe == PipeInit /\ [][PipeNext]_vars

OrderInit == /\ src = NoFile
             /\ opts = WorldOptions
             /\ slices \in OrderSlices
             /\ dst = NoFile
             /\ ppc = "sliced"
             /\ CodecIdle /\ McaIdle /\ SliceIdle /\ DenoiseIdle /\ PruneIdle /\ NameIdle /\ WorldIdle /\ LevelDatIdle

\* restore_region_slices_with_config on the files of the region in the order the
\* directory listing gave them
RestoreInOrder ==
  /\ ppc = "sliced"
  /\ \E order \in Orders(DOMAIN slices) :
       \E r \in {restore_region_slices_with_config(
                    [k \in DOMAIN slices |-> slices[order[k + 1]]], dst,
                    opts.restore_default_values, opts.field_mapper)} :
         /\ dst' = r.file
         /\ ppc' = IF r.ok THEN "ordered" ELSE "failed"
  /\ UNCHANGED <<src, opts, slices, OthersPipe>>

OrderNext == RestoreInOrder
SpecOrder == OrderInit /\ [][OrderNext]_vars

TaskInit == /\ \/ /\ slices \in TaskSlices
                  /\ dst \in {NoFile, OldContainer}
                  /\ ppc = "sliced"
                  /\ LevelDatIdle
               \/ /\ level_json \in LevelTexts
                  /\ level_dat \in {NoLevelDat, OldLevelDat}
                  /\ lpc = "start"
                  /\ slices = NoSlices /\ dst = NoFile /\ ppc = "idle"
            /\ src = NoFile
            /\ opts = WorldOptions
            /\ CodecIdle /\ McaIdle /\ SliceIdle /\ DenoiseIdle /\ PruneIdle /\ NameIdle /\ WorldIdle

\* restore_level_dat_with_config(level.json, level.dat, field_mapper)
RestoreLevelDat ==
  /\ lpc = "start"
  /\ \E r \in {restore_level_dat_with_config(level_json, level_dat, opts.field_mapper)} :
       /\ level_dat' = r.file
       /\ lpc' = IF r.ok THEN "restored" ELSE "failed"
  /\ UNCHANGED <<level_json, OthersLevel>>

TaskNext == RestoreInOrder \/ RestoreLevelDat
SpecTask == TaskInit /\ [][TaskNext]_vars

ExportInit == /\ src \in ExportContainers
              /\ opts \in ExportOptions
              /\ slices = NoSlices
              /\ dst = NoFile
              /\ ppc = "start"
              /\ CodecIdle /\ McaIdle /\ SliceIdle /\ DenoiseIdle /\ PruneIdle /\ NameIdle /\ WorldIdle /\ LevelDatIdle

ExportNext == ExportMca
SpecExport == ExportInit /\ [][ExportNext]_vars

SlotInit == /\ recs \in SlotRecords
            /\ file = NoFile
            /\ rd = ReadErr
            /\ mpc = "start"
            /\ CodecIdle /\ SliceIdle /\ DenoiseIdle /\ PruneIdle /\ NameIdle /\ PipeIdle /\ WorldIdle /\ LevelDatIdle

SlotNext == WriteMca
SpecSlot == SlotInit /\ [][SlotNext]_vars

(***************************************************************************)
(* The dispatch: discovery, then the jobs in any order, then the return.   *)
(***************************************************************************)
WorldInit == /\ \/ wpc = "export" /\ entries \in Directories(ContainerNames,
                                       {GoodContainer, BadContainer, ZeroLengthContainer})
                \/ wpc = "restore" /\ entries \in Directories(SliceNames, {GoodSlice, BadSlice})
             /\ jobs = <<>>
             /\ state = <<>>
             /\ wrote = EmptyMap
             /\ ret = "none"
             /\ CodecIdle /\ McaIdle /\ SliceIdle /\ DenoiseIdle /\ PruneIdle /\ NameIdle
             /\ PipeIdle /\ LevelDatIdle

Pending(q) == [i \in 1..Len(q) |-> "pending"]

\* read_dir filtered by the extension "mca", collected into mca_files
DiscoverContainers ==
  /\ wpc = "export"
  /\ jobs' = SetToSeq({e \in entries : Extension(e.name) = Mca})
  /\ state' = Pending(jobs')
  /\ wpc' = "dispatch_export"
  /\ UNCHANGED <<entries, wrote, ret, OthersWorld>>

\* the grouping loop over read_dir, in the order read_dir gives: a number that does
\* not parse returns Err from restore_world_with_config
DiscoverSlices ==
  /\ wpc = "restore"
  /\ \E order \in Orders(entries) :
       IF \E i \in 1..Len(order) : ~GroupKey(order[i].name).ok
       THEN /\ ret' = "err"
            /\ wpc' = "returned"
            /\ UNCHANGED <<jobs, state>>
       ELSE /\ jobs' = SetToSeq({[name |-> k, content |-> GroupFiles(order, k)] :
                                   k \in {GroupKey(e.name).key :
                                            e \in {x \in entries : GroupKey(x.name).match}}})
            /\ state' = Pending(jobs')
            /\ wpc' = "dispatch_restore"
            /\ UNCHANGED ret
  /\ UNCHANGED <<entries, wrote, OthersWorld>>

\* the files in paths get one more writer, job i
Write(w, paths, i) ==
  [p \in DOMAIN w \cup paths |->
     (IF p \in DOMAIN w THEN w[p] ELSE {}) \cup (IF p \in paths THEN {i} ELSE {})]

\* one item of the par_iter runs to its end
RunExportJob ==
  /\ wpc = "dispatch_export"
  /\ \E i \in 1..Len(jobs) :
       /\ state[i] = "pending"
       /\ \E r \in {ExportJob(jobs[i])} :
            /\ state' = [state EXCEPT ![i] = r.st]
            /\ wrote' = Write(wrote, r.paths, i)
  /\ UNCHANGED <<entries, jobs, ret, wpc, OthersWorld>>

RunRestoreJob ==
  /\ wpc = "dispatch_restore"
  /\ \E i \in 1..Len(jobs) :
       /\ state[i] = "pending"
       /\ \E r \in {RestoreJob(jobs[i])} :
            /\ state' = [state EXCEPT ![i] = r.st]
            /\ wrote' = Write(wrote, r.paths, i)
  /\ UNCHANGED <<entries, jobs, ret, wpc, OthersWorld>>

\* a panic unwinds the sequential fold it happened in: items of that fold not yet
\* started are never run
SkipJob ==
  /\ wpc \in {"dispatch_export", "dispatch_restore"}
  /\ \E j \in 1..Len(jobs) : state[j] = "panicked"
  /\ \E i \in 1..Len(jobs) :
       /\ state[i] = "pending"
       /\ state' = [state EXCEPT ![i] = "skipped"]
  /\ UNCHANGED <<entries, jobs, wrote, ret, wpc, OthersWorld>>

\* for_each is over: Ok(()), unless the panic of an item is resumed in the caller
Return ==
  /\ wpc \in {"dispatch_export", "dispatch_restore"}
  /\ \A i \in 1..Len(jobs) : state[i] # "pending"
  /\ ret' = IF \E i \in 1..Len(jobs) : state[i] = "panicked" THEN "panic" ELSE "ok"
  /\ wpc' = IF wpc = "dispatch_export" THEN "exported" ELSE "restored"
  /\ UNCHANGED <<entries, jobs, state, wrote, OthersWorld>>

WorldNext == DiscoverContainers \/ DiscoverSlices \/ RunExportJob \/ RunRestoreJob
               \/ SkipJob \/ Return
SpecWorld == WorldInit /\ [][WorldNext]_vars
C2_ContainerRoundTrip ==
  (mpc = "read" /\ recs # <<>> /\ DistinctSlots(recs)) =>
     /\ rd.ok
     /\ {<<c.x, c.z, c.data>> : c \in Range(rd.chunks)}
          = {<<c.x % 32, c.z % 32, c.data>> : c \in Range(recs)}

\* C3: every record is in exactly one slice, and the slices' record lists, concatenated
\* in slice-id order (then the slice being filled), are the records in their order
C3_SlicesPartition ==
  /\ DOMAIN out = 0..(Cardinality(DOMAIN out) - 1)
  /\ \A k \in DOMAIN out : out[k].chunks # <<>>
  /\ IF spc = "done" THEN OutChunks(out) = Ident(Len(ser))
     ELSE spc = "loop" => OutChunks(out) \o current_slice = Ident(sidx - 1)
C3_Witness ==
  /\ spc = "done"
  /\ Cardinality(DOMAIN out) = 2
  /\ Len(out[0].chunks) = 2
  /\ ser[out[1].chunks[1]] > MAX_SLICE_SIZE

\* C4: every slice file written is at most 8 MiB long, wrapper and separators
\* included, unless it holds exactly one record
C4_SliceWithinCap ==
  \A k \in DOMAIN out : out[k].bytes <= MAX_SLICE_SIZE \/ Len(out[k].chunks) = 1

\* C5, as claimed: for any record, configuration and aggressive flag, restore_defaults
\* then denoise_chunk_with_config gives what denoise_chunk_with_config alone gives
C5_RestoreThenDenoise == dpc = "done" => da = db
\* the keys denoise_chunk_with_config removes from the root
RemovedKeys == Range(dcfg.chunk.fields)
               \cup (IF daggr THEN Range(dcfg.chunk.aggressive_fields) ELSE {})
\* C5, amended: the two results are equal exactly when each of LastUpdate,
\* InhabitedTime and isLightOn is a key of the record already or is removed by the
\* configuration (as all three are by the default one), or the root is no compound
C5_RestoreThenDenoiseCovered ==
  dpc = "done" =>
    (da = db <=> (dval.t = "Compound" => RestoredKeys \subseteq (DOMAIN dval.m \cup RemovedKeys)))
C5_Witness ==
  /\ dpc = "done"
  /\ dcfg = DefaultDenoiseConfig
  /\ dval.t = "Compound"
  /\ DOMAIN dval.m = {"isLightOn", "Heightmaps"}
  /\ da = db
  /\ da = TCompound("Heightmaps" :> TCompound(EmptyMap))

\* the sections the claim says are removed: "block_states" without a "data" key whose
\* "palette" is a one-element array of an element named air
AirOnly(sec) ==
  /\ sec.t = "obj"
  /\ "block_states" \in DOMAIN sec.m
  /\ LET bs == sec.m["block_states"]
     IN /\ bs.t = "obj"
        /\ "data" \notin DOMAIN bs.m
        /\ "palette" \in DOMAIN bs.m
        /\ bs.m["palette"].t = "arr"
        /\ Len(bs.m["palette"].l) = 1
        /\ LET el == bs.m["palette"].l[1]
           IN /\ el.t = "obj"
              /\ "Name" \in DOMAIN el.m
              /\ el.m["Name"] \in {JString(Air), JString(MinecraftAir)}
KeptSection(sec) == ~AirOnly(sec)
\* C6: filter_empty_sections removes from the root "sections" array exactly the
\* air-only sections without a "data" key; the others stay, in their order, and
\* nothing else of the document changes
C6_FilterExact ==
  fpc = "filtered" =>
    IF cdoc.t = "obj" /\ "sections" \in DOMAIN cdoc.m /\ cdoc.m["sections"].t = "arr"
    THEN /\ fdoc.t = "obj"
         /\ DOMAIN fdoc.m = DOMAIN cdoc.m
         /\ \A k \in DOMAIN cdoc.m \ {"sections"} : fdoc.m[k] = cdoc.m[k]
         /\ fdoc.m["sections"] = JArray(SelectSeq(cdoc.m["sections"].l, KeptSection))
    ELSE fdoc = cdoc
C6_Witness ==
  /\ fpc = "filtered"
  /\ cdoc.t = "obj"
  /\ "sections" \in DOMAIN cdoc.m
  /\ cdoc.m["sections"].t = "arr"
  /\ Len(cdoc.m["sections"].l) = 2
  /\ AirOnly(cdoc.m["sections"].l[1])
  /\ "block_states" \in DOMAIN cdoc.m["sections"].l[2].m
  /\ "data" \in DOMAIN cdoc.m["sections"].l[2].m["block_states"].m
  /\ fdoc.m["sections"].l = <<cdoc.m["sections"].l[2]>>

\* the record written to the source container and what is read from the restored one
SourceRecord == read_mca(src).chunks[1]
Restored     == read_mca(dst)
\* a tree apart from the fields the default configuration lists for removal
ApartFromRemoved(v) == RemoveFields(v.m, DefaultChunkFields)
\* C7, as claimed: with denoise and aggressive off, export then restore gives a
\* container with one record at the same position whose tree is the original's,
\* apart from the fields listed for removal in the default configuration
C7_ExportRestore ==
  (ppc = "restored" /\ ~opts.denoise /\ ~opts.aggressive) =>
     /\ Restored.ok
     /\ Len(Restored.chunks) = 1
     /\ Restored.chunks[1].x = SourceRecord.x
     /\ Restored.chunks[1].z = SourceRecord.z
     /\ ApartFromRemoved(Restored.chunks[1].data) = ApartFromRemoved(SourceRecord.data)
\* C7, amended: the record comes back at its position without its empty list (and
\* without a field named x or z); when skip_empty_chunks is on and the record has
\* no sections and no block entities, nothing is exported and no container written
C7_ExportRestorePruned ==
  (ppc = "restored" /\ ~opts.denoise /\ ~opts.aggressive) =>
     IF opts.skip_empty_chunks /\ DOMAIN SourceRecord.data.m \cap {"sections", "block_entities"} = {}
     THEN slices = NoSlices /\ dst = NoFile
     ELSE /\ Restored.ok
          /\ Len(Restored.chunks) = 1
          /\ Restored.chunks[1].x = SourceRecord.x
          /\ Restored.chunks[1].z = SourceRecord.z
          /\ ApartFromRemoved(Restored.chunks[1].data)
               = ApartFromRemoved(TCompound(
                   RemoveFields(SourceRecord.data.m, <<"block_ticks", "x", "z">>)))
C7_Witness ==
  /\ ppc = "restored"
  /\ ~opts.denoise
  /\ ~opts.skip_empty_chunks
  /\ opts.restore_default_values
  /\ opts.field_mapper = SampleMapping
  /\ SourceRecord.x = 31
  /\ DOMAIN SourceRecord.data.m = {"Status", "DataVersion", "Seed", "block_ticks"}
  /\ Restored.ok
  /\ Len(Restored.chunks) = 1
  /\ DOMAIN Restored.chunks[1].data.m
       = {"Status", "DataVersion", "Seed", "LastUpdate", "InhabitedTime", "isLightOn"}

\* the shape the ambiguity rule names: last character b/s/L/f after a number, or a
\* second character ';' after B/I/L
TypeLikeShape(s) ==
  \/ /\ Len(s) >= 1
     /\ Last(s) \in {"b", "s", "L", "f"}
     /\ IsFloatText(DropLast(s, 1))
  \/ /\ Len(s) >= 2
     /\ s[2] = ";"
     /\ s[1] \in {"B", "I", "L"}
\* C8: every type-like literal string is encoded with the escape marker appended, and
\* decoding that document returns the String tag of the literal
C8_TypeLikeEscaped ==
  (cpc = "decoded" /\ tag.t = "String" /\ TypeLikeShape(tag.s)) =>
     /\ doc = JString(tag.s \o Marker)
     /\ back = Ok(tag)

\* a signed decimal: an optional '-', then one or more digits
SignedDecimal(s) ==
  LET body == IF s # <<>> /\ s[1] = "-" THEN DropFirst(s, 1) ELSE s
  IN body # <<>> /\ AllDigits(body)
\* the ways to read a name as r.<cx>.<cz>.mca, the whole name and nothing else
ExactSplits(s) ==
  {p \in (3..Len(s)) \X (3..Len(s)) :
     /\ SubSeq(s, 1, 2) = <<"r", ".">>
     /\ p[1] < p[2]
     /\ s[p[1]] = "."
     /\ p[2] = Len(s) - 3
     /\ SubSeq(s, p[2], Len(s)) = <<".", "m", "c", "a">>
     /\ SignedDecimal(SubSeq(s, 3, p[1] - 1))
     /\ SignedDecimal(SubSeq(s, p[1] + 1, p[2] - 1))}
\* C9: parse_mca_filename returns Some exactly for the names of the shape
\* r.<cx>.<cz>.mca with signed decimal cx and cz, and None for every other name
C9_ExactShape == npc = "parsed" => (fres.some <=> ExactSplits(fname) # {})

\* C10: for every buffer of at least two sectors, read_mca never aborts
C10_ReadNeverAborts ==
  (mpc = "read" /\ file.len >= 2 * SECTOR_SIZE) => ~rd.panic

(***************************************************************************)
(* C11: a record that fails to decode is skipped alone.                    *)
(***************************************************************************)
\* slot i of f names a payload inside the buffer with a length prefix of at least 1
Framed(f, i) ==
  /\ LocAt(f, i).off # 0 /\ LocAt(f, i).cnt # 0
  /\ LocAt(f, i).off * SECTOR_SIZE + 5 <= f.len
  /\ HeaderAt(f, LocAt(f, i).off).length >= 1
  /\ LocAt(f, i).off * SECTOR_SIZE + 4 + HeaderAt(f, LocAt(f, i).off).length <= f.len
\* the payload of slot i is the whole output of the encoder its compression byte names
Decompresses(f, i) ==
  LET h == HeaderAt(f, LocAt(f, i).off)
  IN \/ h.comp = 3
     \/ h.comp = 1 /\ h.enc = "gzip" /\ h.length - 1 >= h.clen
     \/ h.comp = 2 /\ h.enc = "zlib" /\ h.length - 1 >= h.clen
\* the decompressed bytes of slot i are a tag value
IsTag(f, i) ==
  LET h == HeaderAt(f, LocAt(f, i).off)
  IN h.nbt # JNull /\ (h.comp = 3 => h.enc = "raw" /\ h.length - 1 >= h.clen)
DecodeFails(f, i) == Framed(f, i) /\ Decompresses(f, i) /\ ~IsTag(f, i)
Decodable(f, i)   == Framed(f, i) /\ Decompresses(f, i) /\ IsTag(f, i)
\* slot i ends the read: its payload does not decompress, or its length prefix is 0
EndsRead(f, i) ==
  /\ LocAt(f, i).off # 0 /\ LocAt(f, i).cnt # 0
  /\ LocAt(f, i).off * SECTOR_SIZE + 5 <= f.len
  /\ \/ HeaderAt(f, LocAt(f, i).off).length = 0
     \/ Framed(f, i) /\ HeaderAt(f, LocAt(f, i).off).comp \in {1, 2} /\ ~Decompresses(f, i)
\* the result is Ok and holds exactly the decodable records of f
ReadsDecodable(f, r) ==
  /\ r.ok
  /\ {<<r.chunks[k].x + 32 * r.chunks[k].z, r.chunks[k].data>> : k \in 1..Len(r.chunks)}
       = {<<i, HeaderAt(f, LocAt(f, i).off).nbt>> : i \in {j \in DOMAIN f.loc : Decodable(f, j)}}
  /\ Len(r.chunks) = Cardinality({j \in DOMAIN f.loc : Decodable(f, j)})

C11_ErrAfterSkip ==
  /\ mpc = "read"
  /\ 0 \in DOMAIN file.loc /\ 33 \in DOMAIN file.loc
  /\ DecodeFails(file, 0)
  /\ Framed(file, 33) /\ ~Decompresses(file, 33)
  /\ ~rd.ok /\ ~rd.panic

(***************************************************************************)
(* C12: restore_defaults only adds the three defaults that are absent.     *)
(***************************************************************************)
\* the value restore_defaults gives a key it inserts
DefaultOf(k) == IF k = "isLightOn" THEN TByte(0) ELSE TLong(0)

\* C12: on a compound root restore_defaults keeps every key present with its value
\* (LastUpdate, InhabitedTime and isLightOn included) and adds exactly the absent ones
\* of those three, as Long 0, Long 0 and Byte 0; a non-compound root is unchanged
C12_RestoreDefaultsFrame ==
  dpc = "restored" =>
    IF dval.t = "Compound"
    THEN /\ da.t = "Compound"
         /\ DOMAIN da.m = DOMAIN dval.m \cup RestoredKeys
         /\ \A k \in DOMAIN dval.m : da.m[k] = dval.m[k]
         /\ \A k \in RestoredKeys \ DOMAIN dval.m : da.m[k] = DefaultOf(k)
    ELSE da = dval

\* isLightOn was Byte 5 and stays so, while the absent LastUpdate comes back as Long 0
C12_Witness ==
  /\ dpc = "restored"
  /\ dval.t = "Compound"
  /\ DOMAIN dval.m = {"isLightOn", "Heightmaps"}
  /\ dval.m["isLightOn"] = TByte(5)
  /\ da.t = "Compound"
  /\ da.m["isLightOn"] = TByte(5)
  /\ da.m["LastUpdate"] = TLong(0)
  /\ da.m["InhabitedTime"] = TLong(0)

(***************************************************************************)
(* C13: what denoise_chunk_with_config removes.                            *)
(***************************************************************************)
\* a section without its light keys
WithoutLight(sec) ==
  IF sec.t = "Compound"
  THEN TCompound([k \in DOMAIN sec.m \ {"BlockLight", "SkyLight"} |-> sec.m[k]])
  ELSE sec
\* the root the claim describes: the keys of chunk.fields removed and, only with the
\* aggressive flag, those of chunk.aggressive_fields and the light keys of the sections
ClaimedDenoise(value, aggressive, config) ==
  IF value.t # "Compound" THEN value
  ELSE LET gone == Range(config.chunk.fields)
                     \cup (IF aggressive THEN Range(config.chunk.aggressive_fields) ELSE {})
           Kept(k) == IF k = "sections" /\ aggressive /\ value.m[k].t = "List"
                      THEN TList([i \in 1..Len(value.m[k].l) |-> WithoutLight(value.m[k].l[i])])
                      ELSE value.m[k]
       IN TCompound([k \in DOMAIN value.m \ gone |-> Kept(k)])

\* C13: denoise_chunk_with_config removes exactly the keys of chunk.fields when
\* aggressive is false, and only when aggressive is true also the keys of
\* chunk.aggressive_fields and BlockLight / SkyLight of every compound section;
\* everything else is unchanged
C13_DenoiseExact ==
  dpc = "done" => db = ClaimedDenoise(dval, daggr, dcfg)

\* the part of C13 that holds: with the aggressive flag on the root is the claimed one
C13_DenoiseExactAggressive ==
  (dpc = "done" /\ daggr) => db = ClaimedDenoise(dval, daggr, dcfg)

(***************************************************************************)
(* C14: denoise_level_with_config.                                         *)
(***************************************************************************)
HasData(v) == v.t = "Compound" /\ "Data" \in DOMAIN v.m /\ v.m["Data"].t = "Compound"
WeatherKeys == {"raining", "thundering"}

\* C14: under "Data" every key of level.fields is removed; with reset_weather raining
\* and thundering are Byte 0 afterwards, whatever they were; without it they are as the
\* removal left them; every other key of "Data" and of the root keeps its value, and a
\* root without a compound "Data" is unchanged
C14_DenoiseLevel ==
  dpc = "levelled" =>
    IF HasData(dval)
    THEN LET before == dval.m["Data"].m
             after  == da.m["Data"].m
             gone   == Range(dcfg.level.fields)
             reset  == IF dcfg.level.reset_weather THEN WeatherKeys ELSE {}
         IN /\ da.t = "Compound" /\ DOMAIN da.m = DOMAIN dval.m
            /\ \A k \in DOMAIN dval.m \ {"Data"} : da.m[k] = dval.m[k]
            /\ da.m["Data"].t = "Compound"
            /\ DOMAIN after = (DOMAIN before \ gone) \cup reset
            /\ \A k \in reset : after[k] = TByte(0)
            /\ \A k \in DOMAIN after \ reset : after[k] = before[k]
    ELSE da = dval

\* raining was Byte 1 and thundering absent: both are Byte 0 after the reset, Time is gone
C14_Witness ==
  /\ dpc = "levelled"
  /\ HasData(dval)
  /\ DOMAIN dval.m["Data"].m = {"Time", "raining", "LevelName"}
  /\ dval.m["Data"].m["raining"] = TByte(1)
  /\ dcfg.level.reset_weather
  /\ dcfg.level.fields = <<"Time">>
  /\ da.m["Data"].m = ("raining" :> TByte(0)) @@ ("thundering" :> TByte(0))
                         @@ ("LevelName" :> TString(<<"w">>))

(***************************************************************************)
(* C15: only fully generated records are exported.                         *)
(***************************************************************************)
\* the tag stored in slot i of the source container
SourceTag(i) == HeaderAt(src, LocAt(src, i).off).nbt
\* the root is a compound whose "Status" is one of the two accepted strings
FullStatus(v) ==
  /\ v.t = "Compound"
  /\ "Status" \in DOMAIN v.m
  /\ v.m["Status"] \in {TString(MinecraftFull), TString(Full)}
\* the slots of the records written into the slice files, read from their x and z
ExportedSlots ==
  UNION {{from_str(slices[id].chunks[i]).v.m["x"].n
            + 32 * from_str(slices[id].chunks[i]).v.m["z"].n : i \in 1..Len(slices[id].chunks)} :
         id \in DOMAIN slices}

\* C15: every record written into a slice had, in the source container, a compound
\* root whose "Status" is the string "minecraft:full" or "full"; the status is tested
\* before denoising, so with skip_empty_chunks off the exported records are exactly those
C15_OnlyFullExported ==
  ppc = "exported" =>
    /\ \A i \in ExportedSlots : i \in DOMAIN src.loc /\ FullStatus(SourceTag(i))
    /\ ~opts.skip_empty_chunks =>
         ExportedSlots = {i \in DOMAIN src.loc : FullStatus(SourceTag(i))}

\* of two records, the one with Status "full" is exported although denoise removes
\* "Status", and the one with Status "Full" is not
C15_Witness ==
  /\ ppc = "exported"
  /\ DOMAIN src.loc = {0, 65}
  /\ SourceTag(0).t = "Compound" /\ SourceTag(65).t = "Compound"
  /\ "Status" \in DOMAIN SourceTag(0).m /\ "Status" \in DOMAIN SourceTag(65).m
  /\ SourceTag(0).m["Status"] = TString(<<"F", "u", "l", "l">>)
  /\ SourceTag(65).m["Status"] = TString(Full)
  /\ opts.denoise /\ opts.denoise_config = StatusConfig
  /\ ExportedSlots = {65}

(***************************************************************************)
(* C16: the slot index of write_mca.                                       *)
(***************************************************************************)
\* floor_mod(v, 32): the remainder in 0..31 of the floored division
FloorMod32(v) == v - 32 * (IF v >= 0 THEN v \div 32 ELSE -((-(v + 1)) \div 32) - 1)

\* C16: for every 32-bit x and z the one location entry write_mca makes is at slot
\* floor_mod(x, 32) + 32 * floor_mod(z, 32), which lies in 0..1023
C16_SlotIndex ==
  (mpc = "written" /\ Len(recs) = 1) =>
    /\ DOMAIN file.loc = {FloorMod32(recs[1].x) + 32 * FloorMod32(recs[1].z)}
    /\ DOMAIN file.loc \subseteq 0..(NumSlots - 1)

\* x = -1 and z = i32::MIN: the entry is at slot 31
C16_Witness ==
  /\ mpc = "written"
  /\ Len(recs) = 1
  /\ recs[1].x = -1 /\ recs[1].z = I32Min
  /\ DOMAIN file.loc = {31}

(***************************************************************************)
(* C17, C18: the parallel dispatch.                                        *)
(***************************************************************************)
Returned == wpc \in {"exported", "restored"}
\* the paths job i writes when it runs to its end
PathsOf(i) == IF wpc = "exported" THEN ExportJob(jobs[i]).paths ELSE RestoreJob(jobs[i]).paths
\* job i ran to its end and its output files were written
Completed(i) ==
  /\ state[i] \in {"done", "failed", "panicked"}
  /\ state[i] = "done" => \A p \in PathsOf(i) : p \in DOMAIN wrote /\ i \in wrote[p]

\* C17: when a job of the batch fails, every sibling still runs to its end and writes
\* its output, and the world call returns Ok
C17_FailureIsolated ==
  (Returned /\ \E i \in 1..Len(jobs) : state[i] \in {"failed", "panicked"}) =>
    /\ ret = "ok"
    /\ \A j \in 1..Len(jobs) : Completed(j)

\* the part of C17 that holds: a job that fails with Err leaves its siblings and the
\* return value alone
C17_ErrIsolated ==
  (/\ Returned
   /\ \E i \in 1..Len(jobs) : state[i] = "failed"
   /\ \A i \in 1..Len(jobs) : state[i] # "panicked") =>
    /\ ret = "ok"
    /\ \A j \in 1..Len(jobs) : Completed(j)

\* C18: no output path is written by two jobs of one batch
C18_DistinctPaths ==
  \A p \in DOMAIN wrote : Cardinality(wrote[p]) <= 1

\* the part of C18 that holds: the region files of a restore batch are distinct
C18_DistinctRegionPaths ==
  wpc \in {"dispatch_restore", "restored"} =>
    \A p \in DOMAIN wrote : Cardinality(wrote[p]) <= 1

(***************************************************************************)
(* C19: the layout of the file write_mca writes.                           *)
(***************************************************************************)
\* the whole sectors the payload of c needs: 4 length bytes, the compression byte and
\* the compressed bytes
SectorsOf(c) ==
  CHOOSE k \in {(c.clen + 5) \div SECTOR_SIZE, (c.clen + 5) \div SECTOR_SIZE + 1} :
    k * SECTOR_SIZE >= c.clen + 5 /\ (k - 1) * SECTOR_SIZE < c.clen + 5
RECURSIVE OffsetOf(_, _)
\* 2 plus the sectors of the records before the i-th
OffsetOf(cs, i) == IF i = 1 THEN 2 ELSE OffsetOf(cs, i - 1) + SectorsOf(cs[i - 1])

\* C19: the payload of the first record starts at sector 2 and that of each later one
\* where the previous one's sectors end, so the regions are disjoint; each payload lies
\* within its whole sectors (the rest of them is zero); the location entry of a record
\* alone in its slot holds its offset; the file is 2 + the sum of the sector counts long
C19_Layout ==
  (mpc \in {"written", "read"} /\ recs # <<>>) =>
    /\ DOMAIN file.sec = {OffsetOf(recs, i) : i \in 1..Len(recs)}
    /\ \A i \in 1..Len(recs) :
         /\ file.sec[OffsetOf(recs, i)].length = recs[i].clen + 1
         /\ file.sec[OffsetOf(recs, i)].nbt = recs[i].data
         /\ OffsetOf(recs, i) * SECTOR_SIZE + 5 + recs[i].clen
              <= (OffsetOf(recs, i) + SectorsOf(recs[i])) * SECTOR_SIZE
         /\ (\A j \in 1..Len(recs) : j # i => SlotIndex(recs[j]) # SlotIndex(recs[i]))
              => LocAt(file, SlotIndex(recs[i])).off = OffsetOf(recs, i)
    /\ file.len = (OffsetOf(recs, Len(recs)) + SectorsOf(recs[Len(recs)])) * SECTOR_SIZE

\* a two-sector record then a one-sector record: offsets 2 and 4, a file of 5 sectors
C19_Witness ==
  /\ mpc = "written"
  /\ Len(recs) = 2
  /\ recs[1].clen = 4092 /\ recs[2].clen = 100
  /\ DOMAIN file.sec = {2, 4}
  /\ file.len = 5 * SECTOR_SIZE

(***************************************************************************)
(* C20                                                                     *)
(***************************************************************************)
\* the document number is held as an integer (it was written without a fraction or an
\* exponent and fits the integer types of the document)
IsIntegerNumber(j) == j.t = "num" /\ j.f \in {"int", "i64", "u64"}
InI32(j) == j.f = "int" /\ j.n >= I32Min /\ j.n <= I32Max
\* what both readings agree on: integers in the 32-bit range, integers in the 64-bit
\* range, numbers with a fraction, booleans and null
DecodesScalar ==
  /\ (IsIntegerNumber(doc) /\ InI32(doc)) => back = Ok(TInt(doc.n))
  /\ (doc.t = "num" /\ doc.f = "i64") => back = Ok(TLongText(doc.s))
  /\ (doc.t = "num" /\ ~IsIntegerNumber(doc)) => back = Ok(TDouble(doc.f, doc.n, doc.e))
  /\ doc = JBool(TRUE) => back = Ok(TByte(1))
  /\ doc = JBool(FALSE) => back = Ok(TByte(0))
  /\ doc = JNull => back = Ok(TByte(0))

\* C20: json_to_nbt decodes a document number with no fractional part as a 32-bit integer
\* when it lies in [-2^31, 2^31-1] and as a 64-bit integer otherwise, a number with a
\* fractional part as a 64-bit float, true/false as Byte 1/0, and null as Byte 0.
C20_ScalarDecoding ==
  cpc = "decoded" =>
    /\ DecodesScalar
    /\ (IsIntegerNumber(doc) /\ ~InI32(doc)) => (back.ok /\ back.v.t = "Long")

\* C20 (amended): as above, where an integer outside the 32-bit range is a 64-bit integer
\* when it lies in [-2^63, 2^63-1], and an integer above 2^63-1 decodes as the 64-bit
\* float nearest to it.
C20_ScalarDecodingI64 ==
  cpc = "decoded" =>
    /\ DecodesScalar
    /\ (doc.t = "num" /\ doc.f = "u64") => back = Ok(TDoubleNear(doc.s))

C20_Witness ==
  /\ cpc = "decoded"
  /\ doc = JBigInt("u64", U64MaxText)
  /\ back.ok /\ back.v.t = "Double"

(***************************************************************************)
(* C21                                                                     *)
(***************************************************************************)
\* the string is a numeric text followed by the suffix of the type it parses in
ValidSuffixForm(s) ==
  /\ s # <<>>
  /\ \/ Last(s) = "b" /\ ParseInt(DropLast(s, 1), I8Min, I8Max).ok
     \/ Last(s) = "s" /\ ParseInt(DropLast(s, 1), I16Min, I16Max).ok
     \/ Last(s) = "L" /\ ParseInt(DropLast(s, 1), I64Lo, I64Hi).ok
     \/ Last(s) = "f" /\ IsFloatText(DropLast(s, 1))
\* a document string that is not escaped, not a suffixed number and not array-prefixed
PlainString(j) ==
  /\ j.t = "str"
  /\ ~EndsWith(j.s, Marker)
  /\ ~ValidSuffixForm(j.s)
  /\ (j.s = <<>> \/ j.s[1] \notin {"B", "I", "L"})

\* C21: a document string that does not end with the escape marker, has no valid numeric
\* suffix form and whose first character is not one of B/I/L decodes without error to a
\* String tag with identical content, including strings whose second character is ';'.
C21_PlainStringDecodes ==
  (cpc = "decoded" /\ PlainString(doc)) => back = Ok(TString(doc.s))

\* the same for the plain strings that do not have ';' as the second of three or more
\* characters
C21_PlainStringDecodesNoSemicolon ==
  (cpc = "decoded" /\ PlainString(doc) /\ ~(Len(doc.s) > 2 /\ doc.s[2] = ";"))
     => back = Ok(TString(doc.s))

(***************************************************************************)
(* C22                                                                     *)
(***************************************************************************)
RECURSIVE HasEmpty(_)
\* the value holds at some depth, as a member or as an element, an empty object, an
\* empty array or an empty-list sentinel object
HasEmpty(v) ==
  \/ v.t = "obj" /\ \E k \in DOMAIN v.m : is_empty_json_value(v.m[k]) \/ HasEmpty(v.m[k])
  \/ v.t = "arr" /\ \E i \in 1..Len(v.l) : is_empty_json_value(v.l[i]) \/ HasEmpty(v.l[i])
RECURSIVE HasEmptyMember(_)
\* some object at some depth of the value has an empty value as a member
HasEmptyMember(v) ==
  \/ v.t = "obj" /\ \E k \in DOMAIN v.m : is_empty_json_value(v.m[k]) \/ HasEmptyMember(v.m[k])
  \/ v.t = "arr" /\ \E i \in 1..Len(v.l) : HasEmptyMember(v.l[i])

\* C22: after filter_empty_values runs on a record document, no empty object, empty array
\* or empty-list sentinel object remains anywhere in the document at any nesting depth,
\* whether as an object member or as an array element, including containers that became
\* empty only because their own children were removed.
C22_NoEmptyRemains == fpc = "pruned" => ~HasEmpty(fdoc)

\* no empty value remains as an object member, at any depth
C22_NoEmptyMember == fpc = "pruned" => ~HasEmptyMember(fdoc)

(***************************************************************************)
(* C23                                                                     *)
(***************************************************************************)
\* the document of the record in slot i after denoising (if asked for) and pruning
PrunedDoc(i) ==
  LET data == IF opts.denoise
              THEN denoise_chunk_with_config(SourceTag(i), opts.aggressive, opts.denoise_config)
              ELSE SourceTag(i)
  IN filter_empty_values(filter_empty_sections(nbt_to_json(data)))
\* the document has a non-empty array under the key
NonEmptyArrayAt(d, k) == d.t = "obj" /\ k \in DOMAIN d.m /\ d.m[k].t = "arr" /\ Len(d.m[k].l) > 0

\* C23: a fully generated record is dropped after pruning exactly when skip_empty_chunks
\* is true and the pruned document has neither a non-empty "sections" array nor a
\* non-empty "block_entities" array; with skip_empty_chunks false every full-status
\* record is exported.
C23_DroppedWhenEmpty ==
  ppc = "exported" =>
    \A i \in DOMAIN src.loc :
      FullStatus(SourceTag(i)) =>
        (i \notin ExportedSlots
           <=> (opts.skip_empty_chunks
                  /\ ~NonEmptyArrayAt(PrunedDoc(i), "sections")
                  /\ ~NonEmptyArrayAt(PrunedDoc(i), "block_entities")))

\* with skip_empty_chunks on, a record with only an air section is dropped and a record
\* with only a block entity is exported
C23_Witness ==
  /\ ppc = "exported"
  /\ opts.skip_empty_chunks
  /\ DOMAIN src.loc = {0, 65}
  /\ FullStatus(SourceTag(0)) /\ FullStatus(SourceTag(65))
  /\ "sections" \in DOMAIN SourceTag(0).m /\ SourceTag(0).m["sections"] = TList(<<AirSection>>)
  /\ ~NonEmptyArrayAt(PrunedDoc(0), "sections")
  /\ NonEmptyArrayAt(PrunedDoc(65), "block_entities")
  /\ ~NonEmptyArrayAt(PrunedDoc(65), "sections")
  /\ ExportedSlots = {65}

(***************************************************************************)
(* C24                                                                     *)
(***************************************************************************)
\* the (position, tag) records a container decodes to
DecodedRecords(f) ==
  IF ~f.exists THEN {}
  ELSE {<<c.x, c.z, c.data>> : c \in Range(read_mca(f).chunks)}
\* the container written when the slice files are read in slice-id order
RestoredInIdOrder ==
  restore_region_slices_with_config(slices, NoFile, opts.restore_default_values,
                                    opts.field_mapper).file
\* the slots of the records of all slice files, in slice-id order
SliceSlots ==
  LET texts == Flatten([k \in 1..Cardinality(DOMAIN slices) |-> slices[k - 1].chunks])
  IN [i \in 1..Len(texts) |->
        And31(from_str(texts[i]).v.m["x"].n) + 32 * And31(from_str(texts[i]).v.m["z"].n)]

\* C24: for a fixed set of slice files of one group, the container that
\* restore_region_slices writes decodes to the same set of (position, tag) records
\* whatever the order in which the slice files are read.
C24_OrderIndependent ==
  ppc \in {"ordered", "failed"} =>
    /\ dst.exists = RestoredInIdOrder.exists
    /\ DecodedRecords(dst) = DecodedRecords(RestoredInIdOrder)

\* the same when no two records of the slice files are in one slot
C24_OrderIndependentDistinct ==
  (ppc = "ordered" /\ \A i, j \in DOMAIN SliceSlots : i # j => SliceSlots[i] # SliceSlots[j]) =>
    /\ dst.exists = RestoredInIdOrder.exists
    /\ DecodedRecords(dst) = DecodedRecords(RestoredInIdOrder)

(***************************************************************************)
(* C25                                                                     *)
(***************************************************************************)
\* the document has an integer under the key
HasInteger(d, k) == d.t = "obj" /\ k \in DOMAIN d.m /\ d.m[k].t = "num" /\ d.m[k].f = "int"
\* some slice file has no "chunks", or some record document no integer "x" or "z"
SlicesLackKey ==
  \E k \in DOMAIN slices :
    \/ "chunks" \notin DOMAIN slices[k]
    \/ \E i \in 1..Len(slices[k].chunks) :
         \/ ~HasInteger(from_str(slices[k].chunks[i]).v, "x")
         \/ ~HasInteger(from_str(slices[k].chunks[i]).v, "z")
\* the level document has no "_data"
LevelLacksData ==
  ~(from_str(level_json).v.t = "obj" /\ "_data" \in DOMAIN from_str(level_json).v.m)

\* C25: when a restore input lacks a required key (no "_data" in the level document, no
\* "chunks" array in a slice, no integer "x"/"z" in a record document), the operation
\* returns an error and the output file of the task (level.dat or the container) is
\* neither created nor modified.
C25_MissingKeyNoOutput ==
  [][/\ (lpc' # lpc /\ LevelLacksData) => (lpc' = "failed" /\ level_dat' = level_dat)
     /\ (ppc' # ppc /\ SlicesLackKey) => (ppc' = "failed" /\ dst' = dst)]_vars

\* a record without "z" in the second slice file: the task failed and the container that
\* was there is as it was
C25_Witness ==
  /\ ppc = "failed"
  /\ DOMAIN slices = {0, 1}
  /\ slices[0] = [chunks |-> <<RecordText(0, 0, 7)>>, bytes |-> 0]
  /\ slices[1] = [chunks |-> <<to_string(JObject(("x" :> JInt(0)) @@ ("DataVersion" :> JInt(7))))>>,
                  bytes |-> 0]
  /\ dst = OldContainer

(***************************************************************************)
(* C26                                                                     *)
(***************************************************************************)
\* the i-th record is the last one written into its slot
LastInSlot(i) == \A j \in (i + 1)..Len(recs) : SlotIndex(recs[j]) # SlotIndex(recs[i])

\* C26: for every record write_mca writes, the 1-byte sector count stored in the location
\* table equals the number of sectors its payload occupies in the file,
\* ceil((compressed length + 5) / 4096), for every payload size.
C26_CountByte ==
  (mpc \in {"written", "read"} /\ recs # <<>>) =>
    \A i \in 1..Len(recs) :
      LastInSlot(i) => LocAt(file, SlotIndex(recs[i])).cnt = SectorsOf(recs[i])

\* the same for the payloads of fewer than 256 sectors
C26_CountByteSmall ==
  (mpc \in {"written", "read"} /\ recs # <<>>) =>
    \A i \in 1..Len(recs) :
      (LastInSlot(i) /\ SectorsOf(recs[i]) < 256)
        => LocAt(file, SlotIndex(recs[i])).cnt = SectorsOf(recs[i])

(***************************************************************************)
(* C27                                                                     *)
(***************************************************************************)
\* the location entries that reference the payload region starting at sector o
EntriesAt(o) == {i \in DOMAIN file.loc : file.loc[i].off = o}

\* C27: in a file written by write_mca every payload region is referenced by exactly one
\* location-table entry and every non-empty location-table entry references exactly one
\* payload region, also when two of the supplied records map to the same slot.
C27_OneToOne ==
  (mpc \in {"written", "read"} /\ recs # <<>>) =>
    /\ \A o \in DOMAIN file.sec : Cardinality(EntriesAt(o)) = 1
    /\ \A i \in DOMAIN file.loc : file.loc[i].off \in DOMAIN file.sec

\* the same when the records are in pairwise distinct slots
C27_OneToOneDistinct ==
  (mpc \in {"written", "read"} /\ recs # <<>> /\ DistinctSlots(recs)) =>
    /\ \A o \in DOMAIN file.sec : Cardinality(EntriesAt(o)) = 1
    /\ \A i \in DOMAIN file.loc : file.loc[i].off \in DOMAIN file.sec

(***************************************************************************)
(* C28                                                                     *)
(***************************************************************************)
\* slot i is not skipped, its compression byte is 1 or 2 and its payload does not
\* decompress
FailsToDecompress(f, i) ==
  /\ i \in 0..(NumSlots - 1)
  /\ Framed(f, i)
  /\ HeaderAt(f, LocAt(f, i).off).comp \in {1, 2}
  /\ ~Decompresses(f, i)

\* C28: if the payload of any non-skipped slot with compression tag 1 or 2 fails to
\* decompress, read_mca returns an error for the whole container and none of its
\* records, including records of slots already decoded successfully.
C28_DecompressFailureIsErr ==
  (mpc = "read" /\ \E i \in DOMAIN file.loc : FailsToDecompress(file, i)) => rd = ReadErr

\* no record is returned in that case, and the result is Err unless the read aborted at
\* a slot whose length prefix is 0
C28_DecompressFailureNoRecords ==
  (mpc = "read" /\ \E i \in DOMAIN file.loc : FailsToDecompress(file, i)) =>
    /\ ~rd.ok /\ rd.chunks = <<>>
    /\ (\A j \in DOMAIN file.loc : SlotOutcome(file, j) # "panic") => rd = ReadErr

(***************************************************************************)
(* C29                                                                     *)
(***************************************************************************)
\* C29: json_to_nbt returns Ok or Err for every document and never aborts: a string with
\* prefix "I;" or "L;" whose base64 payload decodes to a byte count that is not a
\* multiple of 4 (respectively 8) is handled without an out-of-bounds element access.
C29_DecodeNeverAborts == cpc = "decoded" => ~back.panic

\* the width of the elements of the array a prefix names
ElementWidth(p) == CASE p = "I" -> 4 [] p = "L" -> 8 [] OTHER -> 1
\* a document string is decoded without abort exactly when its payload is not base64, its
\* prefix is none of I and L, or its byte count is a multiple of the element width
C29_AbortsOnShortChunk ==
  (cpc = "decoded" /\ doc.t = "str") =>
    (back.panic <=> /\ Len(doc.s) > 2 /\ doc.s[2] = ";"
                    /\ Base64Decode(DropFirst(doc.s, 2)).ok
                    /\ Len(Base64Decode(DropFirst(doc.s, 2)).bytes) % ElementWidth(doc.s[1]) # 0)
====
